---- MODULE Spec2Model ----
(***************************************************************************)
(* A model of the ClauQBot bridge: the OneBot WebSocket session            *)
(* (src/src/onebot_client.py), the message router and liveness supervisor  *)
(* (src/src/bot.py), the retrying CLI invoker (src/src/claude_handler.py)  *)
(* and the start sequence that wires them (src/api/app.py, src/start.py).  *)
(*                                                                         *)
(* Text is a sequence of one-character strings, so that prefix matching,   *)
(* trimming, lower-casing, substring search and chunking are computed on   *)
(* logical characters as Python's str does.                                *)
(***************************************************************************)
EXTENDS Integers, Naturals, Sequences, FiniteSets, TLC

\* ------------------------------------------------------------------ bounds
\* Handler tasks (one per on_message invocation) a behaviour may create.
NTasks == 2
\* Largest max_retries a ClaudeHandler is constructed with.
MaxRetriesBound == 3
\* Supervisor probe cycles a behaviour may run.
MaxCycles == 5
\* Largest max_connection_failures a Bot is configured with.
MaxThreshold == 3
\* Frames received on the socket and not yet read by listen().
MaxInbox == 2
\* Session heartbeat tasks alive at once (one more per reconnect).
MaxHeartbeatTasks == 2
\* Largest attempt number the backoff policy is evaluated at.
MaxAttemptN == 9
MaxTextLen == 26
MaxDisconnects == 2

Tasks == 1..NTasks

\* ------------------------------------------------------------------- text
Min(a, b) == IF a <= b THEN a ELSE b

RECURSIVE Pow2(_)
Pow2(n) == IF n <= 0 THEN 1 ELSE 2 * Pow2(n - 1)

UpperChars == <<"A", "B", "C", "D", "E", "F", "G", "H", "I", "J", "K", "L", "M",
                "N", "O", "P", "Q", "R", "S", "T", "U", "V", "W", "X", "Y", "Z">>
LowerChars == <<"a", "b", "c", "d", "e", "f", "g", "h", "i", "j", "k", "l", "m",
                "n", "o", "p", "q", "r", "s", "t", "u", "v", "w", "x", "y", "z">>

\* str.lower() on one character.
LowerChar(c) ==
    IF \E i \in 1..Len(UpperChars) : UpperChars[i] = c
    THEN LowerChars[CHOOSE i \in 1..Len(UpperChars) : UpperChars[i] = c]
    ELSE c

\* str.lower()
Lower(s) == [i \in 1..Len(s) |-> LowerChar(s[i])]

\* str.startswith(prefix)
StartsWith(s, prefix) ==
    /\ Len(prefix) <= Len(s)
    /\ \A i \in 1..Len(prefix) : s[i] = prefix[i]

\* `kw in s` on strings: kw occurs as a contiguous substring of s.
Contains(s, kw) ==
    \E off \in 0..(Len(s) - Len(kw)) :
        \A i \in 1..Len(kw) : s[off + i] = kw[i]

WhiteSpace == {" ", "\n", "\t"}

\* str.strip(): leading and trailing whitespace removed.
Strip(s) ==
    LET keep == {i \in 1..Len(s) : s[i] \notin WhiteSpace}
    IN  IF keep = {} THEN <<>>
        ELSE LET lo == CHOOSE i \in keep : \A j \in keep : i <= j
                 hi == CHOOSE i \in keep : \A j \in keep : j <= i
             IN  SubSeq(s, lo, hi)

\* str(n) for a natural number.
RECURSIVE Digits(_)
Digits(n) ==
    LET d == <<"0", "1", "2", "3", "4", "5", "6", "7", "8", "9">>
    IN  IF n < 10 THEN <<d[n + 1]>> ELSE Digits(n \div 10) \o <<d[(n % 10) + 1]>>

\* ------------------------------------------------ ClaudeHandler: constants
RETRYABLE_ERRORS == {
    <<"t", "i", "m", "e", "o", "u", "t">>,
    <<"c", "o", "n", "n", "e", "c", "t", "i", "o", "n">>,
    <<"n", "e", "t", "w", "o", "r", "k">>,
    <<"t", "e", "m", "p", "o", "r", "a", "r", "y">>,
    <<"r", "a", "t", "e", " ", "l", "i", "m", "i", "t">>,
    <<"5", "0", "3">>,
    <<"5", "0", "2">>,
    <<"5", "0", "4">> }

\* Error texts an attempt is observed to fail with.
ErrConnectionReset ==
    <<"c", "o", "n", "n", "e", "c", "t", "i", "o", "n", " ", "r", "e", "s", "e", "t">>
ErrInvalidSyntax ==
    <<"i", "n", "v", "a", "l", "i", "d", " ", "s", "y", "n", "t", "a", "x">>
ErrNetworkDown ==
    <<"N", "e", "t", "w", "o", "r", "k", " ", "d", "o", "w", "n">>
ErrorMessages == {ErrConnectionReset, ErrInvalidSyntax, ErrNetworkDown}

\* The "Claude CLI not found ... npm install -g @anthropic-ai/claude-code" text of
\* call(); a character outside ASCII is written as its code point.
CliNotFoundError ==
    <<"U+627E", "U+4E0D", "U+5230", "C", "l", "a", "u", "d", "e", " ", "C", "L", "I",
      "U+FF0C", "U+8BF7", "U+786E", "U+8BA4", "U+5DF2", "U+5B89", "U+88C5", "U+FF1A",
      "n", "p", "m", " ", "i", "n", "s", "t", "a", "l", "l", " ", "-", "g", " ", "@",
      "a", "n", "t", "h", "r", "o", "p", "i", "c", "-", "a", "i", "/", "c", "l", "a",
      "u", "d", "e", "-", "c", "o", "d", "e">>
ExceptionPrefix == <<"U+8C03", "U+7528", "U+5F02", "U+5E38", ":", " ">>
ExhaustedPrefix == <<"U+91CD", "U+8BD5">>
ExhaustedInfix == <<"U+6B21", "U+540E", "U+4ECD", "U+5931", "U+8D25", ":", " ">>
NoneText == <<"N", "o", "n", "e">>

\* Replies the CLI is observed to produce.
TextHi == <<"h", "i">>
TextLong == <<"h", "e", "l", "l", "o", " ", "w", "o", "r", "l", "d">>

\* What one run of _call_sync in the executor can hand back to call(): a
\* result dict with success true (text, cost_usd in units of 0.0001 USD), a
\* result dict with success false and an error text, or a raised exception
\* with a message.
Outcomes ==
    { [kind |-> "ok", text |-> TextHi, cost |-> 0, error |-> <<>>],
      [kind |-> "ok", text |-> TextLong, cost |-> 0, error |-> <<>>],
      [kind |-> "ok", text |-> TextHi, cost |-> 20, error |-> <<>>],
      [kind |-> "fail", text |-> <<>>, cost |-> 0, error |-> ErrConnectionReset],
      [kind |-> "fail", text |-> <<>>, cost |-> 0, error |-> ErrInvalidSyntax],
      [kind |-> "raise", text |-> <<>>, cost |-> 0, error |-> ErrNetworkDown],
      [kind |-> "raise", text |-> <<>>, cost |-> 0, error |-> ErrInvalidSyntax] }

\* The outcomes the router is run with: a short answer, an answer with a cost
\* note (sent in chunks), a retryable and a terminal failure.
RouterOutcomes ==
    { [kind |-> "ok", text |-> TextHi, cost |-> 0, error |-> <<>>],
      [kind |-> "ok", text |-> TextHi, cost |-> 20, error |-> <<>>],
      [kind |-> "fail", text |-> <<>>, cost |-> 0, error |-> ErrConnectionReset],
      [kind |-> "raise", text |-> <<>>, cost |-> 0, error |-> ErrInvalidSyntax] }

\* _call_sync on subprocess.TimeoutExpired: the error text names the timeout.
TimeoutError(seconds) ==
    <<"C", "l", "a", "u", "d", "e", "U+54CD", "U+5E94", "U+8D85", "U+65F6", "U+FF08",
      "U+8D85", "U+8FC7">> \o Digits(seconds) \o <<"U+79D2", "U+FF09">>

\* The value of `result` before call() has returned.
NoResult == [set |-> FALSE, success |-> FALSE, result |-> <<>>, cost_usd |-> 0,
             error |-> <<>>, retries |-> 0]

\* -------------------------------------------------------- Bot: constants
AckText == <<"C", "l", "a", "u", "d", "e", " ", "U+6B63", "U+5728", "U+601D",
             "U+8003", ".", ".", ".">>
ErrorPrefix == <<"[", "U+9519", "U+8BEF", "]", " ">>
CostPrefix == <<"\n", "\n", "[", "U+6210", "U+672C", "]", " ", "$">>
UsageText ==
    <<"U+8BF7", "U+8F93", "U+5165", "U+95EE", "U+9898", "U+FF0C", "U+4F8B", "U+5982",
      "U+FF1A", "/", "c", " ", "U+89E3", "U+91CA", "U+4E00", "U+4E0B", "U+8FD9",
      "U+6BB5", "U+4EE3", "U+7801">>
\* bot_config.get('command_prefix', [...]), in list order
command_prefixes ==
    << <<"/", "c">>, <<"/", "c", "l", "a", "u", "d", "e">>, <<"/", "U+95EE">>,
       <<"/", "a", "s", "k">> >>
\* send_long_message's max_length (2000 in the source), scaled to the model's texts.
max_length == 8

\* ------------------------------------------------------------ chat events
\* A decoded frame. group_id 0 stands for an absent group_id (None), sub_type
\* "" for an absent sub_type; message is the list of segments.
Seg(type, text) == [type |-> type, text |-> text]
Event(pt, mt, uid, gid, st, tome, msg) ==
    [post_type |-> pt, message_type |-> mt, user_id |-> uid, group_id |-> gid,
     sub_type |-> st, to_me |-> tome, message |-> msg]

SegHi == <<Seg("text", <<"h", "i">>)>>
SegCmd == <<Seg("at", <<>>), Seg("text", <<" ", "/", "c", " ">>), Seg("text", <<"h", "i">>)>>
SegCmdOnly == <<Seg("text", <<"/", "c", " ">>)>>
SegClaude == <<Seg("text", <<"/", "c", "l", "a", "u", "d", "e", " ", "h", "i">>)>>
SegBlank == <<Seg("text", <<" ">>)>>
SegAtCmdOnly == <<Seg("at", <<>>), Seg("text", <<" ", "/", "a", "s", "k", " ", "\n">>)>>
SegClaudeOnly == <<Seg("text", <<"/", "c", "l", "a", "u", "d", "e">>)>>

Events ==
    { Event("message", "private", 1, 0, "friend", FALSE, SegHi),
      Event("message", "private", 1, 0, "friend", FALSE, SegCmdOnly),
      Event("message", "private", 2, 0, "group", FALSE, SegHi),
      Event("message", "group", 1, 7, "normal", TRUE, SegCmd),
      Event("message", "group", 1, 7, "normal", FALSE, SegCmd),
      Event("notice", "private", 1, 0, "", FALSE, <<>>) }

NoEvent == Event("", "", 0, 0, "", FALSE, <<>>)

VARIABLES
    \* ClaudeHandler configuration (constructor arguments)
    timeout, max_retries, initial_backoff, max_backoff,
    \* Bot configuration (bot_config)
    auto_reply_private, ignore_temp_session, max_connection_failures,
    \* per handler task: position, event, and call()'s locals
    pc, data, attempt, last_error, result, unsent,
    \* what a call has done: <<"run">> per process invocation, <<"sleep", d>> per
    \* backoff sleep; and the outcome of each of its attempts, in order
    trace, outcomes,
    \* whether the task's frame arrived while its conversation was being processed
    late,
    \* Bot
    processing_messages, online_status, connection_failures,
    \* supervisor task: position, notifications delivered, probe cycles run, the
    \* outcome of the last cycle, and the number of consecutive failed probes
    \* since the supervisor was Online with no failures (-1: not in such a run)
    sup_pc, notifications, cycles, last_probe, streak,
    \* the calls of the registered status callbacks, in order
    invoked,
    \* OneBotClient
    \* OneBotClient; heartbeat_tasks counts the _heartbeat tasks alive, and
    \* heartbeat_task is the session's reference: "none", or the task created
    \* last, "live" or "ended"
    running, connected, websocket, heartbeat_tasks, heartbeat_task,
    \* stop_bot and disconnect(): positions, disconnect()'s caller, the position
    \* of connect() when disconnect() was called, and the calls returned
    stop_pc, disc_pc, disc_caller, disc_during, disconnects,
    \* the start sequence, connect() and listen(): positions, connect()'s caller,
    \* the task listen awaits
    app_pc, conn_pc, conn_caller, listen_pc, awaited,
    \* the gateway: frames received and not yet read, everything written to the
    \* socket
    inbox, outbox

configVars == <<timeout, max_retries, initial_backoff, max_backoff, auto_reply_private,
                ignore_temp_session, max_connection_failures>>
taskVars == <<pc, data, attempt, last_error, result, unsent, trace, outcomes, late>>
supVars == <<online_status, connection_failures, sup_pc, notifications, invoked, cycles,
             last_probe, streak>>
sessVars == <<running, websocket, heartbeat_tasks, heartbeat_task, app_pc, conn_pc, conn_caller,
              listen_pc, awaited, inbox>>
stopVars == <<stop_pc, disc_pc, disc_caller, disc_during, disconnects>>
vars == <<configVars, stopVars, taskVars, supVars, sessVars, processing_messages, connected,
          outbox>>

\* ---------------------------------------------------------- ClaudeHandler
C10_CalculateBackoffOffByOne(attempt_n, initial, maximum) ==
    Min(initial * Pow2(attempt_n), maximum)

C11_AlwaysRetryable(error_message) == TRUE
\* _is_retryable_error
IsRetryableError(error_message) ==
    \E keyword \in RETRYABLE_ERRORS : Contains(Lower(error_message), keyword)

C16_Uncapped(attempt_n, initial, maximum) == initial * Pow2(attempt_n - 1)
\* _calculate_backoff
CalculateBackoff(attempt_n, initial, maximum) ==
    Min(initial * Pow2(attempt_n - 1), maximum)

\* A result that counts the attempts made instead of the retries.
C39_CountAttempts(success, text, cost, error, retries) ==
    [set |-> TRUE, success |-> success, result |-> text, cost_usd |-> cost,
     error |-> error, retries |-> retries + 1]

\* The dict call() returns.
Result(success, text, cost, error, retries) ==
    [set |-> TRUE, success |-> success, result |-> text, cost_usd |-> cost,
     error |-> error, retries |-> retries]

C15_RawError(o) == o.error
\* The error of the failure call() returns for a failed attempt that is not
\* retried: the result dict's own error, or the message of the exception behind
\* the marker.
FailureError(o) == IF o.kind = "raise" THEN ExceptionPrefix \o o.error ELSE o.error

\* The attempt's subprocess ran longer than the handler's timeout.
TimedOut == [kind |-> "fail", text |-> <<>>, cost |-> 0, error |-> TimeoutError(timeout)]

C13_RetryThroughLast(attempt_n, error_message) ==
    attempt_n <= max_retries /\ IsRetryableError(error_message)
\* Whether a failed attempt is followed by a backoff sleep and another attempt.
ShouldRetry(attempt_n, error_message) ==
    attempt_n < max_retries /\ IsRetryableError(error_message)

\* ------------------------------------------- ClaudeHandler: _call_sync
\* The "no response" error text of _call_sync.
NoResponseError ==
    <<"C", "l", "a", "u", "d", "e", "U+65E0", "U+54CD", "U+5E94">>

\* What the CLI process is observed to print on its standard output.
StdoutEmpty == <<>>
StdoutBlank == <<" ", "\n">>
StdoutPlain ==
    <<"h", "e", "l", "l", "o", " ", "w", "o", "r", "l", "d", "\n">>
StdoutExample ==
    <<"{", "\"", "s", "u", "c", "c", "e", "s", "s", "\"", ":", "t", "r", "u", "e", ",",
      "\"", "r", "e", "s", "u", "l", "t", "\"", ":", "\"", "h", "i", "\"", ",", "\"",
      "c", "o", "s", "t", "_", "u", "s", "d", "\"", ":", "0", ".", "0", "0", "2", "}",
      "\n">>
StdoutResponse ==
    <<"{", "\"", "r", "e", "s", "p", "o", "n", "s", "e", "\"", ":", "\"", "h", "i",
      "\"", "}">>
StdoutFailure ==
    <<"{", "\"", "s", "u", "c", "c", "e", "s", "s", "\"", ":", "f", "a", "l", "s", "e",
      ",", "\"", "e", "r", "r", "o", "r", "\"", ":", "\"", "i", "n", "v", "a", "l",
      "i", "d", " ", "s", "y", "n", "t", "a", "x", "\"", "}">>
StdoutRetryable ==
    <<"{", "\"", "s", "u", "c", "c", "e", "s", "s", "\"", ":", "f", "a", "l", "s", "e",
      ",", "\"", "e", "r", "r", "o", "r", "\"", ":", "\"", "c", "o", "n", "n", "e",
      "c", "t", "i", "o", "n", " ", "r", "e", "s", "e", "t", "\"", "}">>
StdoutNumber ==
    <<"4", "2", "\n">>
Stdouts == {StdoutEmpty, StdoutBlank, StdoutPlain, StdoutExample, StdoutResponse,
            StdoutFailure, StdoutRetryable, StdoutNumber}

\* json.loads of the texts above: whether the text is JSON, whether the value
\* is an object, the keys the object has with their values (cost_usd in units
\* of 0.0001 USD), and str() of a value that is not an object.
NotJson ==
    [valid |-> FALSE, object |-> FALSE, keys |-> {}, success |-> TRUE, result |-> <<>>,
     response |-> <<>>, cost_usd |-> 0, error |-> <<>>, str |-> <<>>]
JsonLoads(text) ==
    CASE text = Strip(StdoutExample) ->
             [NotJson EXCEPT !.valid = TRUE, !.object = TRUE,
                             !.keys = {"success", "result", "cost_usd"},
                             !.success = TRUE, !.result = TextHi, !.cost_usd = 20]
      [] text = Strip(StdoutResponse) ->
             [NotJson EXCEPT !.valid = TRUE, !.object = TRUE, !.keys = {"response"},
                             !.response = TextHi]
      [] text = Strip(StdoutFailure) ->
             [NotJson EXCEPT !.valid = TRUE, !.object = TRUE,
                             !.keys = {"success", "error"}, !.success = FALSE,
                             !.error = ErrInvalidSyntax]
      [] text = Strip(StdoutRetryable) ->
             [NotJson EXCEPT !.valid = TRUE, !.object = TRUE,
                             !.keys = {"success", "error"}, !.success = FALSE,
                             !.error = ErrConnectionReset]
      [] text = Strip(StdoutNumber) ->
             [NotJson EXCEPT !.valid = TRUE, !.str = <<"4", "2">>]
      [] OTHER -> NotJson

\* _call_sync once subprocess.run has returned with this standard output: the
\* outcome handed to call().
CallSync(stdout) ==
    LET output == Strip(stdout)
        parsed == JsonLoads(output)
        has(k) == k \in parsed.keys
    IN  IF output = <<>>
        THEN [kind |-> "fail", text |-> <<>>, cost |-> 0, error |-> NoResponseError]
        ELSE IF ~parsed.valid
        THEN [kind |-> "ok", text |-> output, cost |-> 0, error |-> <<>>]
        ELSE IF parsed.object
        THEN [kind |-> IF ~has("success") \/ parsed.success THEN "ok" ELSE "fail",
              text |-> IF has("result") THEN parsed.result
                       ELSE IF has("response") THEN parsed.response ELSE <<>>,
              cost |-> IF has("cost_usd") THEN parsed.cost_usd ELSE 0,
              error |-> IF has("error") THEN parsed.error ELSE <<>>]
        ELSE [kind |-> "ok", text |-> parsed.str, cost |-> 0, error |-> <<>>]

\* ------------------------------------------------------------ Bot: router
\* extract_message_text before the final strip: the text segments, concatenated.
RECURSIVE ConcatText(_)
ConcatText(message_data) ==
    IF message_data = <<>> THEN <<>>
    ELSE (IF Head(message_data).type = "text" THEN Head(message_data).text ELSE <<>>)
         \o ConcatText(Tail(message_data))

\* extract_message_text
ExtractMessageText(message_data) == Strip(ConcatText(message_data))

\* is_command
IsCommand(message) ==
    \E i \in 1..Len(command_prefixes) : StartsWith(message, command_prefixes[i])

C20_StripLastMatch(message) ==
    IF IsCommand(message)
    THEN LET i == CHOOSE j \in 1..Len(command_prefixes) :
                      /\ StartsWith(message, command_prefixes[j])
                      /\ \A k \in (j + 1)..Len(command_prefixes) :
                             ~StartsWith(message, command_prefixes[k])
         IN  Strip(SubSeq(message, Len(command_prefixes[i]) + 1, Len(message)))
    ELSE message

\* strip_command_prefix: the first prefix in list order that matches is removed.
StripCommandPrefix(message) ==
    IF IsCommand(message)
    THEN LET i == CHOOSE j \in 1..Len(command_prefixes) :
                      /\ StartsWith(message, command_prefixes[j])
                      /\ \A k \in 1..(j - 1) : ~StartsWith(message, command_prefixes[k])
         IN  Strip(SubSeq(message, Len(command_prefixes[i]) + 1, Len(message)))
    ELSE message

\* str(message_type) as text.
TypeText(message_type) ==
    CASE message_type = "private" -> <<"p", "r", "i", "v", "a", "t", "e">>
      [] message_type = "group" -> <<"g", "r", "o", "u", "p">>
      [] OTHER -> <<>>

\* A key without the separators between its parts.
C33_NoSeparator(d) ==
    TypeText(d.message_type) \o Digits(d.user_id)
        \o (IF d.group_id = 0 THEN TypeText("private") ELSE Digits(d.group_id))

\* message_id = f"{message_type}_{user_id}_{group_id or 'private'}"
MessageId(d) ==
    TypeText(d.message_type) \o <<"_">> \o Digits(d.user_id) \o <<"_">>
        \o (IF d.group_id = 0 THEN TypeText("private") ELSE Digits(d.group_id))

\* What the synchronous part of a handler decides: nothing to send, the usage
\* error of an empty command, or a reply (acknowledgement, invoker, result).
NoPlan == [kind |-> "none", action |-> "", id |-> 0, payload |-> <<>>]
ReplyToUser(user_id, message) ==
    [kind |-> "reply", action |-> "send_private_msg", id |-> user_id, payload |-> message]
ReplyToGroup(group_id, message) ==
    [kind |-> "reply", action |-> "send_group_msg", id |-> group_id, payload |-> message]
\* send_error
SendError(d) ==
    IF d.message_type = "private"
    THEN [kind |-> "usage", action |-> "send_private_msg", id |-> d.user_id,
          payload |-> <<>>]
    ELSE IF d.message_type = "group"
    THEN [kind |-> "usage", action |-> "send_group_msg", id |-> d.group_id,
          payload |-> <<>>]
    ELSE NoPlan

\* A command handler without the check for an empty command.
C40_NoEmptyCheck(d, message) ==
    LET actual_message == StripCommandPrefix(message)
    IN  IF d.message_type = "private" THEN ReplyToUser(d.user_id, actual_message)
        ELSE IF d.message_type = "group" THEN ReplyToGroup(d.group_id, actual_message)
        ELSE NoPlan

\* handle_command
HandleCommand(d, message) ==
    LET actual_message == StripCommandPrefix(message)
    IN  IF Strip(actual_message) = <<>> THEN SendError(d)
        ELSE IF d.message_type = "private" THEN ReplyToUser(d.user_id, actual_message)
        ELSE IF d.message_type = "group" THEN ReplyToGroup(d.group_id, actual_message)
        ELSE NoPlan

C19_PrivateWithoutFilter(d) ==
    LET message == ExtractMessageText(d.message)
    IN  IF IsCommand(message) THEN HandleCommand(d, message)
        ELSE IF auto_reply_private THEN ReplyToUser(d.user_id, message)
        ELSE NoPlan

\* handle_private_message
HandlePrivateMessage(d) ==
    LET message == ExtractMessageText(d.message)
    IN  IF ignore_temp_session /\ d.sub_type # "friend" THEN NoPlan
        ELSE IF IsCommand(message) THEN HandleCommand(d, message)
        ELSE IF auto_reply_private THEN ReplyToUser(d.user_id, message)
        ELSE NoPlan

C18_GroupWithoutMention(d) ==
    LET message == ExtractMessageText(d.message)
    IN  IF Strip(message) = <<>> THEN NoPlan
        ELSE IF IsCommand(message) THEN HandleCommand(d, message)
        ELSE ReplyToGroup(d.group_id, message)

\* handle_group_message
HandleGroupMessage(d) ==
    LET message == ExtractMessageText(d.message)
    IN  IF ~d.to_me THEN NoPlan
        ELSE IF Strip(message) = <<>> THEN NoPlan
        ELSE IF IsCommand(message) THEN HandleCommand(d, message)
        ELSE ReplyToGroup(d.group_id, message)

\* The dispatch of on_message's try block.
Plan(d) ==
    IF d.message_type = "private" THEN HandlePrivateMessage(d)
    ELSE IF d.message_type = "group" THEN HandleGroupMessage(d)
    ELSE NoPlan

\* f"{cost:.4f}" for a cost of c units of 0.0001.
FormatCost(c) ==
    LET frac == Digits(c % 10000)
        pad == [i \in 1..(4 - Len(frac)) |-> "0"]
    IN  Digits(c \div 10000) \o <<".">> \o pad \o frac

\* The answer reply_to_user / reply_to_group send for a successful result.
Answer(r) ==
    IF r.cost_usd > 0 THEN r.result \o CostPrefix \o FormatCost(r.cost_usd) ELSE r.result

C21_FirstChunkOnly(message, n) == <<SubSeq(message, 1, Min(n, Len(message)))>>
\* message[i:i+max_length] for i in range(0, len(message), max_length)
RECURSIVE Chunks(_, _)
Chunks(message, n) ==
    IF message = <<>> THEN <<>>
    ELSE IF Len(message) <= n THEN <<message>>
    ELSE <<SubSeq(message, 1, n)>> \o Chunks(SubSeq(message, n + 1, Len(message)), n)

\* What send_long_message hands to send_func, in order: the whole message when
\* it fits, its slices otherwise.
SendLongMessage(message, n) ==
    IF Len(message) <= n THEN <<message>> ELSE Chunks(message, n)

\* result['result'] of a CLI reply whose JSON carries "result": null.
NoneValue == <<"None">>

\* reply_to_user / reply_to_group raise TypeError before any send: `answer +=`
\* or len(message) applied to a result that is not a string.
Raises(r) == r.success /\ r.result = NoneValue

C22_AnswerOnFailure(r) == SendLongMessage(Answer(r), max_length)
\* The messages reply_to_user / reply_to_group send once call() returned r: the
\* error reply, or the answer through send_long_message.
ReplyMessages(r) ==
    IF ~r.success THEN <<ErrorPrefix \o r.error>>
    ELSE SendLongMessage(Answer(r), max_length)

\* The frame send() writes.
Msg(action, id, message) == [action |-> action, id |-> id, message |-> message]

C17_WrittenAlways(ok) == TRUE
\* send(): ConnectionError when the socket is absent or closed; otherwise the
\* write, which succeeds (ok) or raises and downgrades the connected flag.
Written(ok) == websocket = "open" /\ ok
ConnectedAfterSend(ok) == IF websocket = "open" /\ ~ok THEN FALSE ELSE connected

C1_NeverProcessing(message_id) == FALSE
\* message_id in self.processing_messages
IsProcessing(message_id) == message_id \in processing_messages

C2_AcceptWithoutAdd(pm, message_id) == pm
\* self.processing_messages.add(message_id)
Accept(pm, message_id) == pm \cup {message_id}

C3_FinallyWithoutDiscard(pm, message_id) == pm
\* finally: self.processing_messages.discard(message_id)
Finally(pm, message_id) == pm \ {message_id}

\* A handler has ended: its locals are gone.
Ended(t, how) ==
    /\ pc' = [pc EXCEPT ![t] = how]
    /\ data' = [data EXCEPT ![t] = NoEvent]
    /\ attempt' = [attempt EXCEPT ![t] = 0]
    /\ last_error' = [last_error EXCEPT ![t] = <<>>]
    /\ result' = [result EXCEPT ![t] = NoResult]
    /\ unsent' = [unsent EXCEPT ![t] = <<>>]
    /\ trace' = [trace EXCEPT ![t] = <<>>]
    /\ outcomes' = [outcomes EXCEPT ![t] = <<>>]

\* on_message has returned without a payload: nothing was sent, no local was
\* set; the event it was invoked with stays on record.
Ignored(t) ==
    /\ pc' = [pc EXCEPT ![t] = "ignored"]
    /\ UNCHANGED <<data, attempt, last_error, result, unsent, trace, outcomes>>

\* on_message(data) is invoked: a task is created for it.
Invoke(t, d) ==
    /\ pc[t] = "idle"
    /\ \A u \in Tasks : u < t => pc[u] # "idle"
    /\ pc' = [pc EXCEPT ![t] = "created"]
    /\ data' = [data EXCEPT ![t] = d]
    /\ UNCHANGED <<configVars, stopVars, attempt, last_error, result, unsent, trace, outcomes,
                   late, supVars, sessVars, processing_messages, connected, outbox>>

\* on_message from its start to its first suspension: the post_type check, the
\* duplicate check, the add, the synchronous part of the handler and its first
\* send: the "processing" acknowledgement of reply_to_user / reply_to_group,
\* or send_error's usage text for a command with nothing after the prefix,
\* after which the handler returns. An exception of send() is logged by
\* on_message; the finally clause runs on every way out of the try block.
OnMessage(t, ok) ==
    /\ pc[t] = "created"
    /\ LET d == data[t]
           message_id == MessageId(d)
           plan == Plan(d)
       IN  IF d.post_type # "message"
           THEN Ignored(t) /\ UNCHANGED <<processing_messages, outbox, connected>>
           ELSE IF IsProcessing(message_id)
           THEN Ended(t, "dropped") /\ UNCHANGED <<processing_messages, outbox, connected>>
           ELSE IF plan.kind = "none"
           THEN /\ Ignored(t)
                /\ processing_messages' =
                       Finally(Accept(processing_messages, message_id), message_id)
                /\ UNCHANGED <<outbox, connected>>
           ELSE IF ~Written(ok)
           THEN /\ Ended(t, "failed")
                /\ processing_messages' =
                       Finally(Accept(processing_messages, message_id), message_id)
                /\ connected' = ConnectedAfterSend(ok)
                /\ UNCHANGED outbox
           ELSE IF plan.kind = "usage"
           THEN /\ Ended(t, "done")
                /\ processing_messages' =
                       Finally(Accept(processing_messages, message_id), message_id)
                /\ outbox' = Append(outbox,
                       Msg(plan.action, plan.id, ErrorPrefix \o UsageText))
                /\ UNCHANGED connected
           ELSE /\ pc' = [pc EXCEPT ![t] = "call_enter"]
                /\ processing_messages' = Accept(processing_messages, message_id)
                /\ outbox' = Append(outbox, Msg(plan.action, plan.id, AckText))
                /\ UNCHANGED <<connected, data, attempt, last_error, result, unsent,
                               trace, outcomes>>
    /\ UNCHANGED <<configVars, stopVars, late, supVars, sessVars>>

\* call(message), entered directly by a caller of the ClaudeHandler (a task
\* without an event).
Call(t) ==
    /\ pc[t] = "idle"
    /\ pc' = [pc EXCEPT ![t] = "call_enter"]
    /\ UNCHANGED <<configVars, stopVars, data, attempt, last_error, result, unsent, trace,
                   outcomes, late, supVars, sessVars, processing_messages, connected,
                   outbox>>

\* call() returns r. A direct caller has the result. reply_to_user /
\* reply_to_group go on to their next send: the error reply, the whole answer,
\* or the first chunk of a long answer (send_long_message), and the handler
\* returns unless chunks are left; of its locals only the chunks are read again.
\* A result the reply code cannot format raises inside the handler, whose
\* `except Exception` logs it and returns.
Returned(t, r, ok, did, saw) ==
    IF data[t] = NoEvent
    THEN /\ pc' = [pc EXCEPT ![t] = "call_returned"]
         /\ result' = [result EXCEPT ![t] = r]
         /\ trace' = [trace EXCEPT ![t] = did]
         /\ outcomes' = [outcomes EXCEPT ![t] = saw]
         /\ UNCHANGED <<data, attempt, last_error, unsent, processing_messages,
                        connected, outbox>>
    ELSE IF Raises(r)
    THEN /\ Ended(t, "failed")
         /\ processing_messages' = Finally(processing_messages, MessageId(data[t]))
         /\ UNCHANGED <<connected, outbox>>
    ELSE LET plan == Plan(data[t])
             messages == ReplyMessages(r)
         IN  /\ outbox' = IF Written(ok)
                          THEN Append(outbox, Msg(plan.action, plan.id, Head(messages)))
                          ELSE outbox
             /\ connected' = ConnectedAfterSend(ok)
             /\ IF Written(ok) /\ Len(messages) > 1
                THEN /\ pc' = [pc EXCEPT ![t] = "chunk_sleep"]
                     /\ unsent' = [unsent EXCEPT ![t] = Tail(messages)]
                     /\ attempt' = [attempt EXCEPT ![t] = 0]
                     /\ last_error' = [last_error EXCEPT ![t] = <<>>]
                     /\ result' = [result EXCEPT ![t] = NoResult]
                     /\ trace' = [trace EXCEPT ![t] = <<>>]
                     /\ outcomes' = [outcomes EXCEPT ![t] = <<>>]
                     /\ UNCHANGED <<processing_messages, data>>
                ELSE /\ Ended(t, IF Written(ok) THEN "done" ELSE "failed")
                     /\ processing_messages' =
                            Finally(processing_messages, MessageId(data[t]))

\* call() up to its first suspension: _find_claude_cli; without a CLI the
\* failure is returned at once, otherwise the first attempt is handed to the
\* executor. With an empty range of attempts the loop is skipped and the
\* exhaustion result is returned.
CallEnter(t, found, ok) ==
    /\ pc[t] = "call_enter"
    /\ IF ~found
       THEN Returned(t, Result(FALSE, <<>>, 0, CliNotFoundError, 0), ok, trace[t],
                     outcomes[t])
       ELSE IF max_retries < 1
       THEN Returned(t, Result(FALSE, <<>>, 0,
                               ExhaustedPrefix \o Digits(max_retries) \o ExhaustedInfix
                                   \o NoneText,
                               max_retries),
                     ok, trace[t], outcomes[t])
       ELSE /\ attempt' = [attempt EXCEPT ![t] = 1]
            /\ trace' = [trace EXCEPT ![t] = Append(@, <<"run">>)]
            /\ pc' = [pc EXCEPT ![t] = "call_run"]
            /\ UNCHANGED <<data, last_error, result, unsent, outcomes,
                           processing_messages, connected, outbox>>
    /\ UNCHANGED <<configVars, stopVars, late, supVars, sessVars>>

\* The executor hands the attempt's outcome back: success returns, a retryable
\* failure or exception with attempts left starts the backoff sleep, anything
\* else returns the failure.
AttemptDone(t, o, ok) ==
    /\ pc[t] = "call_run"
    /\ LET saw == Append(outcomes[t], o)
       IN  IF o.kind = "ok"
           THEN Returned(t, Result(TRUE, o.text, o.cost, o.error, attempt[t] - 1), ok,
                         trace[t], saw)
           ELSE IF ShouldRetry(attempt[t], o.error)
           THEN /\ last_error' = [last_error EXCEPT ![t] = o.error]
                /\ trace' = [trace EXCEPT ![t] = Append(@,
                       <<"sleep",
                         CalculateBackoff(attempt[t], initial_backoff, max_backoff)>>)]
                /\ outcomes' = [outcomes EXCEPT ![t] = saw]
                /\ pc' = [pc EXCEPT ![t] = "call_sleep"]
                /\ UNCHANGED <<data, attempt, result, unsent, processing_messages,
                               connected, outbox>>
           ELSE Returned(t,
                         Result(FALSE, <<>>, 0, FailureError(o), attempt[t] - 1),
                         ok, trace[t], saw)
    /\ UNCHANGED <<configVars, stopVars, late, supVars, sessVars>>

\* The backoff sleep ends: `continue` starts the next attempt.
BackoffDone(t) ==
    /\ pc[t] = "call_sleep"
    /\ attempt' = [attempt EXCEPT ![t] = @ + 1]
    /\ trace' = [trace EXCEPT ![t] = Append(@, <<"run">>)]
    /\ pc' = [pc EXCEPT ![t] = "call_run"]
    /\ UNCHANGED <<configVars, stopVars, data, last_error, result, unsent, outcomes, late,
                   supVars, sessVars, processing_messages, connected, outbox>>

\* send_long_message: the inter-chunk sleep ends; the next chunk is sent, or the
\* loop is over and the handler returns.
ChunkSleepDone(t, ok) ==
    /\ pc[t] = "chunk_sleep"
    /\ LET plan == Plan(data[t])
       IN  IF unsent[t] = <<>>
           THEN /\ Ended(t, "done")
                /\ processing_messages' = Finally(processing_messages, MessageId(data[t]))
                /\ UNCHANGED <<outbox, connected>>
           ELSE IF Written(ok)
           THEN /\ outbox' = Append(outbox, Msg(plan.action, plan.id, Head(unsent[t])))
                /\ unsent' = [unsent EXCEPT ![t] = Tail(@)]
                /\ UNCHANGED <<pc, data, processing_messages, connected, attempt,
                               last_error, result, trace, outcomes>>
           ELSE /\ Ended(t, "failed")
                /\ processing_messages' = Finally(processing_messages, MessageId(data[t]))
                /\ connected' = ConnectedAfterSend(ok)
                /\ UNCHANGED outbox
    /\ UNCHANGED <<configVars, stopVars, late, supVars, sessVars>>

\* Positions at which a handler task is suspended inside on_message's try block.
Active == {"call_enter", "call_run", "call_sleep", "chunk_sleep"}

\* The task is cancelled: CancelledError is no Exception, so only the finally
\* clause runs; a task cancelled before it first ran never ran on_message.
Cancel(t) ==
    /\ pc[t] \in Active \cup {"created"}
    /\ Ended(t, IF pc[t] = "created" THEN "unstarted" ELSE "cancelled")
    /\ processing_messages' =
           IF pc[t] = "created" THEN processing_messages
           ELSE Finally(processing_messages, MessageId(data[t]))
    /\ UNCHANGED <<configVars, stopVars, late, supVars, sessVars, connected, outbox>>

\* ------------------------------------------------------------ OneBotClient
\* websocket.closed
Closed(ws) == ws \in {"closed_ok", "closed_error"}

\* is_connected
IsConnected == connected /\ websocket # "none" /\ ~Closed(websocket)

C26_SingleAttempt(is_running) == is_running /\ conn_pc # "sleep"
\* The body of connect()'s `while self.running` loop is entered, or the loop
\* is skipped and connect() returns at once.
ConnectLoops(is_running) == is_running

\* start_bot / run_bot: `await onebot_client.connect()` on the new session.
AppConnect ==
    /\ app_pc = "new"
    /\ IF ConnectLoops(running)
       THEN /\ conn_pc' = "handshake"
            /\ conn_caller' = "start"
            /\ app_pc' = "connecting"
       ELSE /\ app_pc' = "connected"
            /\ UNCHANGED <<conn_pc, conn_caller>>
    /\ UNCHANGED <<configVars, stopVars, taskVars, supVars, running, websocket,
                   heartbeat_tasks, heartbeat_task,
                   listen_pc, awaited, inbox, processing_messages, connected, outbox>>

\* connect(): the handshake succeeds (connected, break) or fails (not connected,
\* sleep reconnect_interval). A reconnect that succeeds goes on into listen():
\* running is set and one more heartbeat task is created.
HandshakeDone(ok) ==
    /\ conn_pc = "handshake"
    /\ IF ~ok
       THEN /\ connected' = FALSE
            /\ conn_pc' = "sleep"
            /\ UNCHANGED <<websocket, app_pc, listen_pc, heartbeat_tasks, heartbeat_task, running>>
       ELSE /\ connected' = TRUE
            /\ websocket' = "open"
            /\ conn_pc' = "idle"
            /\ IF conn_caller = "start"
               THEN /\ app_pc' = "connected"
                    /\ UNCHANGED <<listen_pc, heartbeat_tasks, heartbeat_task, running>>
               ELSE IF running
               THEN /\ running' = TRUE
                    /\ heartbeat_tasks' = heartbeat_tasks + 1
                    /\ heartbeat_task' = "live"
                    /\ listen_pc' = "recv"
                    /\ UNCHANGED app_pc
               ELSE /\ listen_pc' = "ended"
                    /\ UNCHANGED <<app_pc, heartbeat_tasks, heartbeat_task, running>>
    /\ UNCHANGED <<configVars, stopVars, taskVars, supVars, conn_caller, awaited, inbox,
                   processing_messages, outbox>>

\* connect(): the sleep after a failed handshake ends and the loop condition is
\* evaluated again.
ConnectSleepDone ==
    /\ conn_pc = "sleep"
    /\ IF ConnectLoops(running)
       THEN conn_pc' = "handshake" /\ UNCHANGED <<app_pc, listen_pc>>
       ELSE /\ conn_pc' = "idle"
            /\ IF conn_caller = "start"
               THEN app_pc' = "connected" /\ UNCHANGED listen_pc
               ELSE listen_pc' = "ended" /\ UNCHANGED app_pc
    /\ UNCHANGED <<configVars, stopVars, taskVars, supVars, running, websocket,
                   heartbeat_tasks, heartbeat_task,
                   conn_caller, awaited, inbox, processing_messages, connected, outbox>>

\* start_bot: connect() has returned; the listen task is created and
\* start_heartbeat creates the supervisor task.
AppListen ==
    /\ app_pc = "connected"
    /\ app_pc' = "started"
    /\ listen_pc' = "created"
    /\ sup_pc' = "sleep"
    /\ UNCHANGED <<configVars, stopVars, taskVars, online_status, connection_failures,
                   notifications, invoked, cycles, last_probe, streak, running, websocket,
                   heartbeat_tasks, heartbeat_task, conn_pc, conn_caller, awaited, inbox,
                   processing_messages, connected, outbox>>

\* listen() up to its read loop: RuntimeError without a socket; otherwise the
\* running flag is set and the heartbeat task is created.
ListenEnter ==
    /\ listen_pc = "created"
    /\ IF websocket = "none"
       THEN listen_pc' = "error" /\ UNCHANGED <<running, heartbeat_tasks, heartbeat_task>>
       ELSE /\ listen_pc' = "recv"
            /\ running' = TRUE
            /\ heartbeat_tasks' = heartbeat_tasks + 1
            /\ heartbeat_task' = "live"
    /\ UNCHANGED <<configVars, stopVars, taskVars, supVars, websocket, app_pc, conn_pc,
                   conn_caller, awaited, inbox, processing_messages, connected, outbox>>

\* The gateway delivers a frame on the open socket: the JSON text of an event,
\* or text that is not JSON. `during` records whether the event's conversation
\* was being processed, its acknowledgement sent and the CLI not yet returned,
\* when the frame arrived.
Frames == [decodes : {TRUE}, data : Events] \cup {[decodes |-> FALSE, data |-> NoEvent]}
Waiting(message_id) ==
    \E t \in Tasks : /\ pc[t] \in {"call_run", "call_sleep"}
                     /\ data[t].post_type = "message"
                     /\ MessageId(data[t]) = message_id
FrameArrive(f) ==
    /\ websocket = "open"
    /\ Len(inbox) < MaxInbox
    /\ f.decodes =>
           Cardinality({t \in Tasks : pc[t] # "idle"})
               + Cardinality({i \in 1..Len(inbox) : inbox[i].decodes}) < NTasks
    /\ inbox' = Append(inbox,
           [decodes |-> f.decodes, data |-> f.data,
            during |-> f.decodes /\ f.data.post_type = "message"
                          /\ Waiting(MessageId(f.data))])
    /\ UNCHANGED <<configVars, stopVars, taskVars, supVars, running, websocket,
                   heartbeat_tasks, heartbeat_task,
                   app_pc, conn_pc, conn_caller, listen_pc, awaited,
                   processing_messages, connected, outbox>>

\* listen(): a frame is read. json.loads fails on text that is not JSON, which
\* is logged and skipped; otherwise the registered handler creates a task for
\* on_message and listen awaits what the handler returns: that task.
Recv ==
    /\ listen_pc = "recv"
    /\ inbox # <<>>
    /\ IF ~Head(inbox).decodes
       THEN UNCHANGED <<pc, data, late, listen_pc, awaited>>
       ELSE LET t == CHOOSE u \in Tasks :
                         pc[u] = "idle" /\ \A v \in Tasks : v < u => pc[v] # "idle"
            IN  /\ pc' = [pc EXCEPT ![t] = "created"]
                /\ data' = [data EXCEPT ![t] = Head(inbox).data]
                /\ late' = [late EXCEPT ![t] = Head(inbox).during]
                /\ listen_pc' = "await"
                /\ awaited' = t
    /\ inbox' = Tail(inbox)
    /\ UNCHANGED <<configVars, stopVars, attempt, last_error, result, unsent, trace, outcomes,
                   supVars, running, websocket, heartbeat_tasks, heartbeat_task, app_pc, conn_pc,
                   conn_caller, processing_messages, connected, outbox>>

C24_StopOnFailure ==
    /\ listen_pc = "await"
    /\ pc[awaited] \in {"done", "ignored", "dropped", "failed"}
    /\ listen_pc' = IF pc[awaited] = "failed" THEN "ended" ELSE "recv"
    /\ awaited' = 0
    /\ UNCHANGED <<configVars, stopVars, taskVars, supVars, running, websocket,
                   heartbeat_tasks, heartbeat_task,
                   app_pc, conn_pc, conn_caller, inbox, processing_messages, connected,
                   outbox>>
\* listen(): the awaited handler task has ended; the loop goes on.
HandlerDone ==
    /\ listen_pc = "await"
    /\ pc[awaited] \in {"done", "ignored", "dropped", "failed"}
    /\ listen_pc' = "recv"
    /\ awaited' = 0
    /\ UNCHANGED <<configVars, stopVars, taskVars, supVars, running, websocket,
                   heartbeat_tasks, heartbeat_task,
                   app_pc, conn_pc, conn_caller, inbox, processing_messages, connected,
                   outbox>>

\* The peer closes the connection, normally ("ok") or not ("error").
PeerClose(how) ==
    /\ websocket = "open"
    /\ heartbeat_tasks < MaxHeartbeatTasks
    /\ websocket' = IF how = "ok" THEN "closed_ok" ELSE "closed_error"
    /\ UNCHANGED <<configVars, stopVars, taskVars, supVars, running,
                   heartbeat_tasks, heartbeat_task, app_pc,
                   conn_pc, conn_caller, listen_pc, awaited, inbox,
                   processing_messages, connected, outbox>>

\* listen(): the frames received are read and the socket is closed. After a
\* normal closure the iteration just ends and listen() returns; otherwise
\* ConnectionClosed is raised: connected is cleared and _reconnect() calls
\* connect().
ListenClosed ==
    /\ listen_pc = "recv"
    /\ inbox = <<>>
    /\ Closed(websocket)
    /\ IF websocket = "closed_ok"
       THEN listen_pc' = "ended" /\ UNCHANGED <<connected, conn_pc, conn_caller>>
       ELSE /\ connected' = FALSE
            /\ IF ~running
               THEN listen_pc' = "ended" /\ UNCHANGED <<conn_pc, conn_caller>>
               ELSE /\ listen_pc' = "reconnect"
                    /\ conn_pc' = "handshake"
                    /\ conn_caller' = "reconnect"
    /\ UNCHANGED <<configVars, stopVars, taskVars, supVars, running, websocket,
                   heartbeat_tasks, heartbeat_task,
                   app_pc, awaited, inbox, processing_messages, outbox>>

\* The reference once one more _heartbeat task has ended: the task it names,
\* if alive, is that task or, with several alive, another one.
RefAfterExit ==
    IF heartbeat_task # "live" THEN {heartbeat_task}
    ELSE IF heartbeat_tasks > 1 THEN {"live", "ended"}
    ELSE {"ended"}

\* A heartbeat task that closes the socket when its ping fails.
C35_FailureCloses(ok) ==
    /\ heartbeat_tasks > 0
    /\ websocket = "open"
    /\ connected' = IF ok THEN connected ELSE FALSE
    /\ websocket' = IF ok THEN websocket ELSE "closed_error"
    /\ IF ok /\ running
       THEN UNCHANGED <<heartbeat_tasks, heartbeat_task>>
       ELSE /\ heartbeat_tasks' = heartbeat_tasks - 1
            /\ heartbeat_task' \in RefAfterExit
    /\ UNCHANGED <<configVars, stopVars, taskVars, supVars, running, app_pc,
                   conn_pc, conn_caller, listen_pc, awaited, inbox, processing_messages,
                   outbox>>

\* _heartbeat: a heartbeat task wakes from its sleep and pings the open socket;
\* a failed ping clears connected and ends the task, and after a ping the loop
\* condition ends it once running is cleared.
SessionHeartbeat(ok) ==
    /\ heartbeat_tasks > 0
    /\ websocket = "open"
    /\ connected' = IF ok THEN connected ELSE FALSE
    /\ IF ok /\ running
       THEN UNCHANGED <<heartbeat_tasks, heartbeat_task>>
       ELSE /\ heartbeat_tasks' = heartbeat_tasks - 1
            /\ heartbeat_task' \in RefAfterExit
    /\ UNCHANGED <<configVars, stopVars, taskVars, supVars, running, websocket, app_pc,
                   conn_pc, conn_caller, listen_pc, awaited, inbox, processing_messages,
                   outbox>>

\* ------------------------------------------------ stop_bot and disconnect()
C31_CancelOnlyAsleep(p) == IF p = "sleep" THEN "cancelled" ELSE p
\* The supervisor task after stop_heartbeat(): a task that has not ended is
\* cancelled where it is suspended, in its sleep or in the ping it awaits, and
\* CancelledError, which no `except Exception` catches, leaves the loop by
\* `break`; stop_heartbeat() awaits that. Without a live task nothing is done.
AfterCancel(p) == IF p \in {"sleep", "ping"} THEN "cancelled" ELSE p

\* Bot.stop_heartbeat() called on its own.
BotStopHeartbeat ==
    /\ sup_pc' = AfterCancel(sup_pc)
    /\ UNCHANGED <<configVars, stopVars, taskVars, online_status, connection_failures,
                   notifications, invoked, cycles, last_probe, streak, sessVars,
                   processing_messages, connected, outbox>>

\* stop_bot: `await bot_client.stop_heartbeat()` cancels the supervisor task.
\* The listen task has run by the time a stop request is served.
StopHeartbeat ==
    /\ app_pc = "started"
    /\ listen_pc # "created"
    /\ stop_pc = "idle"
    /\ disc_pc = "idle"
    /\ stop_pc' = "disconnect"
    /\ sup_pc' = AfterCancel(sup_pc)
    /\ UNCHANGED <<configVars, taskVars, online_status, connection_failures,
                   notifications, invoked, cycles, last_probe, streak, sessVars, disc_pc,
                   disc_caller, disc_during, disconnects, processing_messages,
                   connected, outbox>>

C28_CloseLeavesOpen(ws) == ws
\* The socket after `await self.websocket.close()`: closed, if it was not.
AfterClose(ws) == IF ws = "open" THEN "closed_ok" ELSE ws

\* disconnect() returns to its caller; stop_bot goes on to cancel the listen
\* task.
DisconnectReturns(caller) ==
    /\ disc_pc' = "idle"
    /\ disconnects' = disconnects + 1
    /\ stop_pc' = IF caller = "stop" THEN "cancel" ELSE stop_pc

\* disconnect() after its heartbeat block: without a socket it returns,
\* otherwise close() is awaited on the socket the session holds now.
DisconnectClose(caller) ==
    IF websocket = "none"
    THEN DisconnectReturns(caller)
    ELSE /\ disc_pc' = IF websocket = "open" THEN "closing_open" ELSE "closing_closed"
         /\ UNCHANGED <<disconnects, stop_pc>>

\* disconnect() is called, by stop_bot or directly, on a session that was
\* never started or whose listen task has run: running and connected are
\* cleared, and the heartbeat task the session refers to is cancelled and
\* awaited.
Disconnect(caller) ==
    /\ disc_pc = "idle"
    /\ IF caller = "stop" THEN stop_pc = "disconnect"
       ELSE /\ stop_pc = "idle"
            /\ disconnects < MaxDisconnects
            /\ app_pc = "new" \/ (app_pc = "started" /\ listen_pc # "created")
    /\ disc_caller' = caller
    /\ disc_during' = conn_pc
    /\ running' = FALSE
    /\ connected' = FALSE
    /\ IF heartbeat_task # "none"
       THEN /\ heartbeat_tasks' =
                   IF heartbeat_task = "live" THEN heartbeat_tasks - 1 ELSE heartbeat_tasks
            /\ heartbeat_task' = "ended"
            /\ disc_pc' = "await_hb"
            /\ UNCHANGED <<disconnects, stop_pc>>
       ELSE DisconnectClose(caller) /\ UNCHANGED <<heartbeat_tasks, heartbeat_task>>
    /\ UNCHANGED <<configVars, taskVars, supVars, websocket, app_pc, conn_pc, conn_caller,
                   listen_pc, awaited, inbox, processing_messages, outbox>>

\* disconnect(): the cancelled heartbeat task has ended; the reference is
\* cleared.
DisconnectHbDone ==
    /\ disc_pc = "await_hb"
    /\ heartbeat_task' = "none"
    /\ DisconnectClose(disc_caller)
    /\ UNCHANGED <<configVars, taskVars, supVars, running, websocket, heartbeat_tasks,
                   app_pc, conn_pc, conn_caller, listen_pc, awaited, inbox, disc_caller,
                   disc_during, processing_messages, connected, outbox>>

\* disconnect(): close() has returned. It closed the socket the session held
\* when it was called; a socket that replaced a closed one since is not
\* touched.
DisconnectClosed ==
    /\ disc_pc \in {"closing_open", "closing_closed"}
    /\ websocket' = IF disc_pc = "closing_open" THEN AfterClose(websocket) ELSE websocket
    /\ DisconnectReturns(disc_caller)
    /\ UNCHANGED <<configVars, taskVars, supVars, running, heartbeat_tasks,
                   heartbeat_task, app_pc, conn_pc, conn_caller, listen_pc, awaited,
                   inbox, disc_caller, disc_during, processing_messages, connected,
                   outbox>>

\* stop_bot: `bot_task.cancel(); await bot_task`. A listen task that has not
\* ended is cancelled where it is suspended, in its read, in the handler it
\* awaits or in the connect() of its reconnect; then bot_client is dropped.
StopCancel ==
    /\ stop_pc = "cancel"
    /\ stop_pc' = "done"
    /\ app_pc' = "stopped"
    /\ listen_pc' = IF listen_pc \in {"recv", "await", "reconnect"} THEN "cancelled"
                    ELSE listen_pc
    /\ conn_pc' = IF listen_pc = "reconnect" THEN "idle" ELSE conn_pc
    /\ awaited' = 0
    /\ IF listen_pc = "await" /\ pc[awaited] \in Active \cup {"created"}
       THEN /\ Ended(awaited, IF pc[awaited] = "created" THEN "unstarted" ELSE "cancelled")
            /\ processing_messages' =
                   IF pc[awaited] = "created" THEN processing_messages
                   ELSE Finally(processing_messages, MessageId(data[awaited]))
       ELSE UNCHANGED <<pc, data, attempt, last_error, result, unsent, trace, outcomes,
                        processing_messages>>
    /\ UNCHANGED <<configVars, late, supVars, running, websocket, heartbeat_tasks,
                   heartbeat_task, conn_caller, inbox, disc_pc, disc_caller, disc_during,
                   disconnects, connected, outbox>>

\* ---------------------------------------------------- Bot: the supervisor
\* The supervisor's state as one value: status, failure counter, notifications.
Sup == [online |-> online_status, failures |-> connection_failures,
        notes |-> notifications]

\* The status snapshot _notify_status_change hands to the callbacks.
Snapshot(s) == [online |-> s.online, connection_failures |-> s.failures]

\* The observers registered with add_status_callback, in order: a function
\* that raises, a function that returns, a coroutine function.
status_callbacks == <<"raises", "function", "coroutine">>

C30_StopAtRaise(callbacks, status, now) ==
    LET n == IF \E i \in 1..Len(callbacks) : callbacks[i] = "raises"
             THEN CHOOSE i \in 1..Len(callbacks) :
                      /\ callbacks[i] = "raises"
                      /\ \A j \in 1..(i - 1) : callbacks[j] # "raises"
             ELSE Len(callbacks)
    IN  [i \in 1..n |->
            [observer |-> i, task |-> callbacks[i] = "coroutine",
             raised |-> callbacks[i] = "raises",
             status |-> [online |-> status.online,
                         connection_failures |-> status.connection_failures,
                         timestamp |-> now]]]
\* _notify_status_change: the status dict is built with the loop's time, and
\* each callback in turn is called with it, a coroutine function through a
\* task it creates; an exception a call raises is caught and logged inside the
\* loop body.
NotifyStatusChange(callbacks, status, now) ==
    [i \in 1..Len(callbacks) |->
        [observer |-> i, task |-> callbacks[i] = "coroutine",
         raised |-> callbacks[i] = "raises",
         status |-> [online |-> status.online,
                     connection_failures |-> status.connection_failures,
                     timestamp |-> now]]]

\* The callback calls of the status changes of one probe cycle.
RECURSIVE NotifyEach(_, _)
NotifyEach(notes, now) ==
    IF notes = <<>> THEN <<>>
    ELSE NotifyStatusChange(status_callbacks, Head(notes), now)
             \o NotifyEach(Tail(notes), now)

\* A notification that hands every snapshot made so far to the callbacks again.
C38_AllNotes(s) == s.notes

\* The notifications of supervisor state s that are not yet on record.
NewNotes(s) == SubSeq(s.notes, Len(notifications) + 1, Len(s.notes))

\* A disconnect handler that notifies whether or not the status changes.
C34_AlwaysNotify(s) ==
    LET s1 == [s EXCEPT !.online = FALSE]
    IN  [s1 EXCEPT !.notes = Append(@, Snapshot(s1))]

\* _handle_disconnect
HandleDisconnect(s) ==
    IF s.online
    THEN LET s1 == [s EXCEPT !.online = FALSE]
         IN  [s1 EXCEPT !.notes = Append(@, Snapshot(s1))]
    ELSE s

\* A reconnect handler that keeps the failure count.
C37_ReconnectKeepsCount(s) ==
    IF ~s.online
    THEN LET s1 == [s EXCEPT !.online = TRUE]
         IN  [s1 EXCEPT !.notes = Append(@, Snapshot(s1))]
    ELSE s

\* _handle_reconnect
HandleReconnect(s) ==
    IF ~s.online
    THEN LET s1 == [s EXCEPT !.online = TRUE, !.failures = 0]
         IN  [s1 EXCEPT !.notes = Append(@, Snapshot(s1))]
    ELSE s

C7_AboveThreshold(failures) == failures > max_connection_failures
\* self.connection_failures >= self.max_connection_failures
ReachedThreshold(failures) == failures >= max_connection_failures

\* _test_connection: the ping succeeded (ok) or raised.
TestConnection(s, ok) ==
    IF ok
    THEN IF s.failures > 0 THEN [s EXCEPT !.failures = 0] ELSE s
    ELSE LET s1 == [s EXCEPT !.failures = @ + 1]
         IN  IF ReachedThreshold(s1.failures) THEN HandleDisconnect(s1) ELSE s1

\* _heartbeat_loop from `await self._test_connection()` to the end of the loop
\* body.
ProbeCycle(s, ok) ==
    LET s1 == TestConnection(s, ok)
    IN  IF s1.failures > 0 THEN HandleReconnect(s1) ELSE s1

\* The run of consecutive failed probes after a cycle that left the supervisor
\* in state s: a failed probe extends a run that has not yet reached the
\* threshold; otherwise a new run can start iff s is Online without failures.
NextStreak(kind, s) ==
    IF kind = "fail" /\ streak >= 0 /\ streak + 1 < max_connection_failures
    THEN streak + 1
    ELSE IF s.online /\ s.failures = 0 THEN 0 ELSE -1

\* _heartbeat_loop: the sleep ends and the session is asked whether it is
\* connected. If not, _handle_disconnect and `continue`; else the ping is sent.
HbWake ==
    /\ sup_pc = "sleep"
    /\ cycles < MaxCycles
    /\ IF ~IsConnected
       THEN LET s == HandleDisconnect(Sup)
            IN  /\ online_status' = s.online
                /\ connection_failures' = s.failures
                /\ notifications' = s.notes
                /\ invoked' = invoked \o NotifyEach(NewNotes(s), cycles)
                /\ cycles' = cycles + 1
                /\ last_probe' = "disconnected"
                /\ streak' = NextStreak("disconnected", s)
                /\ UNCHANGED sup_pc
       ELSE /\ sup_pc' = "ping"
            /\ UNCHANGED <<online_status, connection_failures, notifications, invoked,
                           cycles, last_probe, streak>>
    /\ UNCHANGED <<configVars, stopVars, taskVars, sessVars, processing_messages, connected,
                   outbox>>

\* _heartbeat_loop: the ping returns or raises (it raises on a socket that is
\* no longer open); the rest of the loop body runs.
HbPing(ok) ==
    /\ sup_pc = "ping"
    /\ LET pong == ok /\ websocket = "open"
           s == ProbeCycle(Sup, pong)
       IN  /\ online_status' = s.online
           /\ connection_failures' = s.failures
           /\ notifications' = s.notes
           /\ invoked' = invoked \o NotifyEach(NewNotes(s), cycles)
           /\ last_probe' = IF pong THEN "ok" ELSE "fail"
           /\ streak' = NextStreak(IF pong THEN "ok" ELSE "fail", s)
    /\ cycles' = cycles + 1
    /\ sup_pc' = "sleep"
    /\ UNCHANGED <<configVars, stopVars, taskVars, sessVars, processing_messages, connected,
                   outbox>>

\* ------------------------------------------------------- initial states
\* ClaudeHandler(...): the constructor's arguments.
InitCallConfig ==
    /\ timeout \in {300, 503}
    /\ max_retries \in 0..MaxRetriesBound
    /\ initial_backoff \in {1, 2}
    /\ max_backoff \in {3, 60}

\* Bot.__init__: the configuration read from bot_config.
InitBotConfig ==
    /\ auto_reply_private \in BOOLEAN
    /\ ignore_temp_session \in BOOLEAN
    /\ max_connection_failures \in 1..MaxThreshold

\* The defaults of the configuration.
DefaultConfig ==
    /\ timeout = 300
    /\ max_retries = 3
    /\ initial_backoff = 1
    /\ max_backoff = 60
    /\ auto_reply_private = TRUE
    /\ ignore_temp_session = TRUE
    /\ max_connection_failures = 3

\* No on_message task exists yet.
InitTasks ==
    /\ pc = [t \in Tasks |-> "idle"]
    /\ data = [t \in Tasks |-> NoEvent]
    /\ attempt = [t \in Tasks |-> 0]
    /\ last_error = [t \in Tasks |-> <<>>]
    /\ result = [t \in Tasks |-> NoResult]
    /\ unsent = [t \in Tasks |-> <<>>]
    /\ trace = [t \in Tasks |-> <<>>]
    /\ outcomes = [t \in Tasks |-> <<>>]
    /\ late = [t \in Tasks |-> FALSE]

\* Bot.__init__
InitBot ==
    /\ processing_messages = {}
    /\ online_status = TRUE
    /\ connection_failures = 0
    /\ sup_pc = "off"
    /\ notifications = <<>>
    /\ invoked = <<>>
    /\ cycles = 0
    /\ last_probe = "none"
    /\ streak = 0

\* OneBotClient.__init__ sets running to False; a session whose running flag
\* is already set when connect() is called is the other case the model starts
\* from, since connect() attempts a handshake only with the flag set.
InitSession ==
    /\ running \in BOOLEAN
    /\ connected = FALSE
    /\ websocket = "none"
    /\ heartbeat_tasks = 0
    /\ heartbeat_task = "none"
    /\ stop_pc = "idle"
    /\ disc_pc = "idle"
    /\ disc_caller = "none"
    /\ disc_during = "idle"
    /\ disconnects = 0
    /\ app_pc = "new"
    /\ conn_pc = "idle"
    /\ conn_caller = "none"
    /\ listen_pc = "none"
    /\ awaited = 0
    /\ inbox = <<>>
    /\ outbox = <<>>

\* ------------------------------------------------------- specifications
\* The retrying invoker alone: call() applied to a ClaudeHandler of any
\* configuration, every attempt ending in any outcome.
InitCall == InitCallConfig /\ auto_reply_private = TRUE /\ ignore_temp_session = TRUE
            /\ max_connection_failures = 3 /\ InitTasks /\ InitBot /\ InitSession
            /\ running = FALSE
NextCall ==
    \E t \in {1} :
        \/ Call(t)
        \/ \E found \in BOOLEAN : CallEnter(t, found, TRUE)
        \/ \E o \in Outcomes : AttemptDone(t, o, TRUE)
        \/ AttemptDone(t, TimedOut, TRUE)
        \/ BackoffDone(t)
SpecCall == InitCall /\ [][NextCall]_vars
\* The same, with every process invocation returning and every sleep ending.
SpecCallFair == SpecCall /\ WF_vars(NextCall)
\* The invoker over the process: every attempt's subprocess prints any of the
\* observed outputs.
NextProcess ==
    \/ Call(1)
    \/ \E found \in BOOLEAN : CallEnter(1, found, TRUE)
    \/ \E stdout \in Stdouts : AttemptDone(1, CallSync(stdout), TRUE)
    \/ BackoffDone(1)
SpecProcess == InitCall /\ [][NextProcess]_vars

\* The supervisor over the session's life cycle: start sequence, connection
\* loss and reconnect, probes.
InitSup ==
    /\ timeout = 300
    /\ max_retries = 3 /\ initial_backoff = 1 /\ max_backoff = 60
    /\ InitBotConfig /\ auto_reply_private = TRUE /\ ignore_temp_session = TRUE
    /\ InitTasks /\ InitBot /\ InitSession
NextSession ==
    \/ AppConnect
    \/ \E ok \in BOOLEAN : HandshakeDone(ok)
    \/ ConnectSleepDone
    \/ AppListen
    \/ ListenEnter
    \/ \E how \in {"ok", "error"} : PeerClose(how)
    \/ ListenClosed
    \/ \E ok \in BOOLEAN : SessionHeartbeat(ok)
NextSup ==
    \/ NextSession
    \/ HbWake
    \/ \E ok \in BOOLEAN : HbPing(ok)
SpecSup == InitSup /\ [][NextSup]_vars
\* The supervisor over the session, with stop_heartbeat() called at any time,
\* any number of times, on its own or as the first step of stop_bot.
NextSupStop ==
    \/ NextSup
    \/ BotStopHeartbeat
    \/ StopHeartbeat
    \/ Disconnect("stop")
    \/ DisconnectHbDone
    \/ DisconnectClosed
    \/ StopCancel
SpecSupStop == InitSup /\ [][NextSupStop]_vars
\* The same, with a sleep of connect() that ends and a peer that accepts a
\* handshake if connect() keeps trying.
SpecSupFair ==
    SpecSup /\ WF_vars(ConnectSleepDone) /\ SF_vars(HandshakeDone(TRUE))

\* The handler's steps after on_message has been entered.
NextHandler(t, O) ==
    \/ \E ok \in BOOLEAN : OnMessage(t, ok)
    \/ \E found, ok \in BOOLEAN : CallEnter(t, found, ok)
    \/ \E o \in O, ok \in BOOLEAN : AttemptDone(t, o, ok)
    \/ BackoffDone(t)
    \/ \E ok \in BOOLEAN : ChunkSleepDone(t, ok)

\* The router alone: on_message invoked for any events as concurrently
\* scheduled tasks, which may be cancelled, over a session that is connecting
\* or connected and whose writes may fail.
InitBotSpec ==
    /\ timeout = 300
    /\ max_retries = 2 /\ initial_backoff = 1 /\ max_backoff = 60
    /\ auto_reply_private = TRUE /\ ignore_temp_session = TRUE
    /\ max_connection_failures = 3
    /\ InitTasks /\ InitBot /\ InitSession
\* Events of two conversations: an auto-replied private message and an empty
\* command of the same sender, an addressed group command, and a notice.
BotEvents ==
    { Event("message", "private", 1, 0, "friend", FALSE, SegHi),
      Event("message", "private", 1, 0, "friend", FALSE, SegCmdOnly),
      Event("message", "group", 1, 7, "normal", TRUE, SegCmd),
      Event("notice", "private", 1, 0, "", FALSE, <<>>) }
BotOutcomes ==
    { [kind |-> "ok", text |-> TextHi, cost |-> 20, error |-> <<>>],
      [kind |-> "fail", text |-> <<>>, cost |-> 0, error |-> ErrConnectionReset],
      [kind |-> "raise", text |-> <<>>, cost |-> 0, error |-> ErrInvalidSyntax] }
NextBot ==
    \/ AppConnect
    \/ \E ok \in BOOLEAN : HandshakeDone(ok)
    \/ ConnectSleepDone
    \/ \E t \in Tasks, d \in BotEvents : Invoke(t, d)
    \/ \E t \in Tasks : NextHandler(t, BotOutcomes)
    \/ \E t \in Tasks : Cancel(t)
SpecBot == InitBotSpec /\ [][NextBot]_vars

\* The conversation keys: on_message invoked concurrently for events of two
\* senders and two groups whose numbers share digits, a group event without
\* group_id, and two different messages of one conversation.
KeyEvents ==
    { Event("message", "private", uid, 0, "friend", FALSE, SegHi) : uid \in {1, 11} }
    \cup { Event("message", "private", 1, 0, "friend", FALSE, SegClaude) }
    \cup { Event("message", "group", uid, gid, "normal", TRUE, SegCmd) :
              uid \in {1, 11}, gid \in {1, 11} }
    \cup { Event("message", "group", 1, 0, "normal", TRUE, SegCmd) }
NextKey ==
    \/ AppConnect
    \/ HandshakeDone(TRUE)
    \/ \E t \in Tasks, d \in KeyEvents : Invoke(t, d)
    \/ \E t \in Tasks : OnMessage(t, TRUE)
    \/ \E t \in Tasks : CallEnter(t, TRUE, TRUE)
    \/ \E t \in Tasks : AttemptDone(t, [kind |-> "ok", text |-> TextHi, cost |-> 20,
                                         error |-> <<>>], TRUE)
SpecKey == InitBotSpec /\ [][NextKey]_vars

\* The router's dispatch: on_message invoked once, for any event and any
\* setting of the two routing options.
RouteEvents ==
    { Event("message", "private", 1, 0, st, FALSE, msg) :
          st \in {"friend", "group", ""}, msg \in {SegHi, SegCmd, SegCmdOnly, SegClaude} }
    \cup { Event("message", "group", 1, 7, "normal", tome, msg) :
              tome \in BOOLEAN, msg \in {SegHi, SegCmd, SegBlank, SegClaude} }
    \cup { Event("notice", "private", 1, 0, "", FALSE, <<>>) }
InitRoute ==
    /\ timeout = 300
    /\ max_retries = 2 /\ initial_backoff = 1 /\ max_backoff = 60
    /\ auto_reply_private \in BOOLEAN
    /\ ignore_temp_session \in BOOLEAN
    /\ max_connection_failures = 3
    /\ InitTasks /\ InitBot /\ InitSession
NextRoute ==
    \/ AppConnect
    \/ \E ok \in BOOLEAN : HandshakeDone(ok)
    \/ ConnectSleepDone
    \/ \E d \in RouteEvents : Invoke(1, d)
    \/ NextHandler(1, BotOutcomes)
SpecRoute == InitRoute /\ [][NextRoute]_vars

\* The commands: on_message invoked once for a command with or without text
\* after its prefix, in a private or a group conversation, for any setting of
\* the routing options.
CommandEvents ==
    { Event("message", "private", 1, 0, st, FALSE, msg) :
          st \in {"friend", "group"}, msg \in {SegCmdOnly, SegClaudeOnly, SegCmd} }
    \cup { Event("message", "group", 1, 7, "normal", tome, msg) :
              tome \in BOOLEAN, msg \in {SegCmdOnly, SegAtCmdOnly, SegCmd} }
NextCommand ==
    \/ AppConnect
    \/ \E ok \in BOOLEAN : HandshakeDone(ok)
    \/ ConnectSleepDone
    \/ \E d \in CommandEvents : Invoke(1, d)
    \/ NextHandler(1, BotOutcomes)
SpecCommand == InitRoute /\ [][NextCommand]_vars

\* The replies of one handler: on_message invoked once for an event that has a
\* payload, or call() applied by a direct caller, every attempt ending in any
\* outcome, a timeout and an unformattable result included.
ReplyEvents ==
    { Event("message", "private", 1, 0, "friend", FALSE, SegHi),
      Event("message", "group", 1, 7, "normal", TRUE, SegCmd) }
ReplyOutcomes ==
    Outcomes \cup
    { [kind |-> "ok", text |-> TextLong, cost |-> 20, error |-> <<>>],
      [kind |-> "ok", text |-> NoneValue, cost |-> 0, error |-> <<>>] }
NextReply ==
    \/ AppConnect
    \/ \E ok \in BOOLEAN : HandshakeDone(ok)
    \/ ConnectSleepDone
    \/ \E d \in ReplyEvents : Invoke(1, d)
    \/ Call(1)
    \/ NextHandler(1, ReplyOutcomes)
    \/ \E ok \in BOOLEAN : AttemptDone(1, TimedOut, ok)
SpecReply == InitBotSpec /\ [][NextReply]_vars

\* The listen loop over a session whose peer sends frames that decode and
\* frames that do not, and closes the connection; the handler's CLI runs end
\* in an answer, in a result the reply code cannot format, or in a failure.
ListenFrames ==
    { [decodes |-> TRUE, data |-> Event("message", "private", 1, 0, "friend", FALSE, SegHi)],
      [decodes |-> FALSE, data |-> NoEvent] }
ListenOutcomes ==
    { [kind |-> "ok", text |-> TextLong, cost |-> 0, error |-> <<>>],
      [kind |-> "ok", text |-> NoneValue, cost |-> 0, error |-> <<>>],
      [kind |-> "fail", text |-> <<>>, cost |-> 0, error |-> ErrConnectionReset] }
NextListen ==
    \/ AppConnect
    \/ \E ok \in BOOLEAN : HandshakeDone(ok)
    \/ ConnectSleepDone
    \/ AppListen
    \/ ListenEnter
    \/ \E f \in ListenFrames : FrameArrive(f)
    \/ Recv
    \/ HandlerDone
    \/ \E how \in {"ok", "error"} : PeerClose(how)
    \/ ListenClosed
    \/ \E t \in Tasks : NextHandler(t, ListenOutcomes)
SpecListen == InitBotSpec /\ [][NextListen]_vars

\* The session's life-cycle with its end: stop_bot, and disconnect() called
\* directly, at any point of the connection's life.
NextStop ==
    \/ NextSession
    \/ StopHeartbeat
    \/ \E caller \in {"stop", "direct"} : Disconnect(caller)
    \/ DisconnectHbDone
    \/ DisconnectClosed
    \/ StopCancel
SpecStop == InitBotSpec /\ [][NextStop]_vars

\* The bridge as the start code wires it: the session's listen loop reads the
\* gateway's frames and runs the router through the registered handler.
NextBridge ==
    \/ NextSession
    \/ \E f \in Frames : FrameArrive(f)
    \/ Recv
    \/ HandlerDone
    \/ \E t \in Tasks : NextHandler(t, RouterOutcomes)
Spec == InitBotSpec /\ [][NextBridge]_vars

\* ------------------------------------------------------------- claims
Last(q) == q[Len(q)]

\* The notifications a step appends.
Appended == SubSeq(notifications', Len(notifications) + 1, Len(notifications'))

\* A probe cycle ends in this step.
CycleEnds == cycles' = cycles + 1

\* C1: when on_message runs for an event whose key is in processing_messages,
\* it ends as a drop: nothing is sent, the invoker is not called, and
\* processing_messages is left as it was.
C1_DuplicateDropped ==
    [][\A t \in Tasks :
          ( /\ pc[t] = "created"
            /\ pc'[t] \notin {"created", "unstarted"}
            /\ data[t].post_type = "message"
            /\ MessageId(data[t]) \in processing_messages )
          => ( /\ pc'[t] = "dropped"
               /\ outbox' = outbox
               /\ trace' = trace
               /\ attempt' = attempt
               /\ processing_messages' = processing_messages )]_vars

\* A duplicate has been dropped while the first event of its conversation is
\* waiting for the CLI.
C1_Witness ==
    \E t, u \in Tasks :
        /\ pc[t] = "dropped"
        /\ pc[u] = "call_run"
        /\ MessageId(data[u]) \in processing_messages

\* C2: at most one handler per conversation key is between "key added" and
\* "key removed".
C2_MutualExclusion ==
    \A t, u \in Tasks :
        (t # u /\ pc[t] \in Active /\ pc[u] \in Active
             /\ data[t] # NoEvent /\ data[u] # NoEvent)
        => MessageId(data[t]) # MessageId(data[u])

\* Two handlers of different conversations are in flight at once.
C2_Witness ==
    \E t, u \in Tasks :
        /\ t # u
        /\ pc[t] = "call_run" /\ pc[u] \in {"call_sleep", "chunk_sleep"}
        /\ Cardinality(processing_messages) = 2

\* C3: a key is in processing_messages only while a handler that accepted it
\* is running; with no handler running the set is empty.
C3_CleanupOnEveryExit ==
    processing_messages \subseteq
        {MessageId(data[t]) : t \in {u \in Tasks : pc[u] \in Active /\ data[u] # NoEvent}}

\* One accepted handler was cancelled, another ended on a failed send, and
\* the set is empty.
C3_Witness ==
    /\ processing_messages = {}
    /\ \E t, u \in Tasks : pc[t] = "cancelled" /\ pc[u] = "failed"
    /\ outbox # <<>>

\* C4: an event whose frame arrived while the first event of its conversation
\* was being processed is discarded: it never gets an acknowledgement, an
\* invocation or a reply, also not after the first event has completed.
C4_LateFrameDiscarded ==
    \A t \in Tasks : late[t] => pc[t] \in {"idle", "created", "dropped", "ignored"}

\* C5: while a handler waits for the CLI or sleeps between attempts, listen()
\* is at its read, so that a frame of another conversation is dispatched.
C5_ListenReadsOn ==
    \A t \in Tasks :
        ( /\ pc[t] \in {"call_run", "call_sleep"}
          /\ inbox # <<>>
          /\ Head(inbox).decodes
          /\ Head(inbox).data.post_type = "message"
          /\ MessageId(Head(inbox).data) # MessageId(data[t]) )
        => listen_pc = "recv"

\* C6: connect() on the new session returns with a handshake done, so that
\* listen() finds a socket.
C6_ConnectEstablishes ==
    /\ app_pc = "connected" => (connected /\ websocket # "none")
    /\ listen_pc # "error"

\* C7: in a run of failed probes that starts Online with no failures, a failed
\* probe flips the status Online -> Offline exactly when it is the one that
\* reaches the threshold, and then once; before that a failed probe, and a
\* success after a single failure, change no status and notify nobody.
C7_ThresholdNoFlapping ==
    [][(CycleEnds /\ streak >= 0) =>
          LET offline == {i \in 1..Len(Appended) : ~Appended[i].online}
          IN  /\ (last_probe' = "fail" /\ streak + 1 = max_connection_failures)
                  => (online_status /\ Cardinality(offline) = 1 /\ ~Appended[1].online)
              /\ (last_probe' = "fail" /\ streak + 1 < max_connection_failures)
                  => (Appended = <<>> /\ online_status /\ online_status')
              /\ (last_probe' = "ok" /\ streak = 1)
                  => (Appended = <<>> /\ online_status /\ online_status')]_vars

\* Three failed probes in a row, from Online with no failures and threshold 3,
\* have been made and the status was flipped at the third.
C7_Witness ==
    /\ max_connection_failures = 3
    /\ cycles = 3
    /\ last_probe = "fail"
    /\ notifications # <<>>
    /\ notifications[1] = [online |-> FALSE, connection_failures |-> 3]

\* C8: a cycle whose probe succeeds while the supervisor is Offline makes it
\* Online, with failure counter 0, and notifies online = true.
C8_RecoveryOnSuccess ==
    [][(CycleEnds /\ last_probe' = "ok" /\ ~online_status) =>
          ( /\ online_status'
            /\ connection_failures' = 0
            /\ Appended = <<[online |-> TRUE, connection_failures |-> 0]>> )]_vars

\* C9: a cycle whose probe failed never ends Online after being Offline: not
\* from Offline at its start, and not after the flip to Offline in the cycle.
C9_OfflineLeftOnlyOnSuccess ==
    [][(CycleEnds /\ last_probe' = "fail") =>
          ( /\ ~online_status => ~online_status'
            /\ (\E i \in 1..Len(Appended) : ~Appended[i].online) => ~online_status' )]_vars

\* min(initialBackoff * 2^(n-1), maxBackoff), written out.
C10_Delay(n) ==
    IF initial_backoff * Pow2(n - 1) > max_backoff THEN max_backoff
    ELSE initial_backoff * Pow2(n - 1)

\* run, sleep delay(1), run, ..., sleep delay(k-1), run
C10_Expected(k) ==
    [i \in 1..(2 * k - 1) |->
        IF i % 2 = 1 THEN <<"run">> ELSE <<"sleep", C10_Delay(i \div 2)>>]

\* Attempts 1..k-1 failed with a retryable error.
C10_RetryableSoFar(saw, k) ==
    \A i \in 1..(k - 1) : saw[i].kind # "ok" /\ IsRetryableError(saw[i].error)

\* C10: a call does not return after a retryable failure with attempts left;
\* and when attempts 1..k-1 failed retryably and attempt k <= max_retries
\* succeeded, it returns that success with retries = k-1 after exactly k
\* invocations and the sleeps delay(1)..delay(k-1), one between each two
\* consecutive attempts.
C10_RetryThenSuccess ==
    \A t \in Tasks :
        (pc[t] = "call_returned" /\ outcomes[t] # <<>>) =>
            LET saw == outcomes[t]
                k == Len(saw)
            IN  /\ ~(k < max_retries /\ C10_RetryableSoFar(saw, k + 1))
                /\ (k <= max_retries /\ Last(saw).kind = "ok" /\ C10_RetryableSoFar(saw, k))
                    => ( /\ result[t].success
                         /\ result[t].result = Last(saw).text
                         /\ result[t].retries = k - 1
                         /\ trace[t] = C10_Expected(k) )

\* Two "connection reset" failures, then success: retries 2.
C10_Witness ==
    \E t \in Tasks :
        /\ pc[t] = "call_returned"
        /\ Len(outcomes[t]) = 3
        /\ outcomes[t][1].error = ErrConnectionReset
        /\ outcomes[t][2].error = ErrConnectionReset
        /\ result[t].success /\ result[t].retries = 2
        /\ max_backoff = 3

\* The error text contains none of the retryable keywords, in any case.
C11_NoKeyword(e) == \A kw \in RETRYABLE_ERRORS : ~Contains(Lower(e), kw)

\* C11: an attempt k that fails with an error containing no retryable keyword
\* ends the call at once: it returns that failure with retries = k-1, and the
\* sleeps and invocations are those before attempt k plus attempt k's own.
C11_NonRetryableTerminal ==
    \A t \in Tasks :
        ( /\ data[t] = NoEvent
          /\ outcomes[t] # <<>>
          /\ Last(outcomes[t]).kind = "fail"
          /\ C11_NoKeyword(Last(outcomes[t]).error) )
        => LET k == Len(outcomes[t])
           IN  /\ pc[t] = "call_returned"
               /\ result[t].set /\ ~result[t].success
               /\ result[t].error = Last(outcomes[t]).error
               /\ result[t].retries = k - 1
               /\ trace[t] = C10_Expected(k)

\* "invalid syntax" at attempt 1: returned with retries 0 after one invocation
\* and no sleep, with attempts left.
C11_Witness ==
    \E t \in Tasks :
        /\ pc[t] = "call_returned"
        /\ max_retries = 3
        /\ Len(outcomes[t]) = 1
        /\ outcomes[t][1].kind = "fail" /\ outcomes[t][1].error = ErrInvalidSyntax
        /\ result[t].retries = 0
        /\ trace[t] = << <<"run">> >>

\* C12: when all max_retries attempts failed with a retryable error, the
\* returned error is the "still failing after N retries: <last error>" text.
C12_ExhaustionNamesCount ==
    \A t \in Tasks :
        ( /\ pc[t] = "call_returned"
          /\ max_retries >= 1
          /\ Len(outcomes[t]) = max_retries
          /\ \A i \in 1..Len(outcomes[t]) :
                 outcomes[t][i].kind # "ok" /\ IsRetryableError(outcomes[t][i].error) )
        => result[t].error =
               ExhaustedPrefix \o Digits(max_retries) \o ExhaustedInfix
                   \o Last(outcomes[t]).error

\* The number of entries of a call's trace of the given kind.
C13_Count(did, kind) == Cardinality({i \in 1..Len(did) : did[i][1] = kind})

\* C13: with max_retries = N >= 1 a call makes at most N invocations and at
\* most N-1 sleeps, never sleeps after attempt N, and returns.
C13_BoundedAndTerminates ==
    /\ [](\A t \in Tasks :
            max_retries >= 1 =>
                /\ C13_Count(trace[t], "run") <= max_retries
                /\ C13_Count(trace[t], "sleep") <= max_retries - 1
                /\ pc[t] = "call_sleep" => attempt[t] < max_retries)
    /\ \A t \in Tasks : (pc[t] = "call_enter") ~> (pc[t] = "call_returned")

\* A call has used all of three attempts: three invocations, two sleeps.
C13_Witness ==
    \E t \in Tasks :
        /\ pc[t] = "call_returned"
        /\ max_retries = 3
        /\ C13_Count(trace[t], "run") = 3
        /\ C13_Count(trace[t], "sleep") = 2

\* C14: an attempt that timed out fails with an error containing "timeout",
\* and with attempts left the call goes on to a sleep and another attempt.
C14_TimeoutRetried ==
    \A t \in Tasks :
        ( /\ outcomes[t] # <<>>
          /\ Last(outcomes[t]) = TimedOut
          /\ Len(outcomes[t]) < max_retries )
        => /\ Contains(Lower(Last(outcomes[t]).error), <<"t", "i", "m", "e", "o", "u", "t">>)
           /\ pc[t] # "call_returned"

\* C15: an exception raised by attempt k is classified by the keyword rule;
\* retryable with k < max_retries: sleep delay(k), then attempt k+1; otherwise
\* the call returns success = false, the message behind the marker, and
\* retries = k-1.
C15_ExceptionsHandled ==
    \A t \in Tasks :
        (data[t] = NoEvent /\ outcomes[t] # <<>> /\ Last(outcomes[t]).kind = "raise")
        => LET k == Len(outcomes[t])
               e == Last(outcomes[t]).error
               n == Len(trace[t])
           IN  IF ~C11_NoKeyword(e) /\ k < max_retries
               THEN \/ /\ pc[t] = "call_sleep" /\ attempt[t] = k
                       /\ trace[t][n] = <<"sleep", C10_Delay(k)>>
                    \/ /\ pc[t] = "call_run" /\ attempt[t] = k + 1
                       /\ trace[t][n - 1] = <<"sleep", C10_Delay(k)>>
                       /\ trace[t][n] = <<"run">>
               ELSE /\ pc[t] = "call_returned"
                    /\ result[t].set /\ ~result[t].success
                    /\ result[t].error = ExceptionPrefix \o e
                    /\ result[t].retries = k - 1

\* "Network down" raised at attempt 1 was retried; "invalid syntax" raised at
\* attempt 2 was returned behind the marker.
C15_Witness ==
    \E t \in Tasks :
        /\ pc[t] = "call_returned"
        /\ Len(outcomes[t]) = 2
        /\ outcomes[t][1].kind = "raise" /\ outcomes[t][1].error = ErrNetworkDown
        /\ outcomes[t][2].kind = "raise" /\ outcomes[t][2].error = ErrInvalidSyntax
        /\ result[t].retries = 1
        /\ result[t].error = ExceptionPrefix \o ErrInvalidSyntax

\* C16: _calculate_backoff(n) = min(initial_backoff * 2^(n-1), max_backoff);
\* it is non-decreasing in n, never above max_backoff, and 1, 2, 4, 8, 16, 32,
\* 60, 60, 60 for n = 1..9 with initial_backoff 1 and max_backoff 60.
C16_BackoffPolicy ==
    /\ \A n \in 1..MaxAttemptN :
           LET d == CalculateBackoff(n, initial_backoff, max_backoff)
               e == initial_backoff * 2^(n - 1)
           IN  /\ d = IF e < max_backoff THEN e ELSE max_backoff
               /\ d <= max_backoff
               /\ d <= CalculateBackoff(n + 1, initial_backoff, max_backoff)
    /\ [n \in 1..9 |-> CalculateBackoff(n, 1, 60)] = <<1, 2, 4, 8, 16, 32, 60, 60, 60>>

\* A call has slept the capped delay: min(2 * 2, 3) after its second attempt.
C16_Witness ==
    \E t \in Tasks :
        /\ initial_backoff = 2 /\ max_backoff = 3
        /\ Len(trace[t]) >= 4
        /\ trace[t][2] = <<"sleep", 2>>
        /\ trace[t][4] = <<"sleep", 3>>

\* The conversation an event came from, as a send action and its target.
C17_To(m, d) ==
    IF d.message_type = "private"
    THEN m.action = "send_private_msg" /\ m.id = d.user_id
    ELSE m.action = "send_group_msg" /\ m.id = d.group_id

\* What a step writes to the socket.
C17_Sent == SubSeq(outbox', Len(outbox) + 1, Len(outbox'))

\* The invoker is running for the task.
C17_InCall == {"call_enter", "call_run", "call_sleep"}

\* C17: a handler enters the invoker once, from the step that wrote the
\* acknowledgement to the event's conversation (a failed acknowledgement ends
\* the handler); it writes nothing while the invoker runs; and the step in
\* which the invoker returns writes the result or error to that conversation.
C17_ReplyProtocol ==
    [][\A t \in Tasks :
          LET d == data[t]
          IN  /\ (pc[t] # "call_enter" /\ pc'[t] = "call_enter")
                  => ( /\ pc[t] = "created"
                       /\ websocket = "open"
                       /\ Len(C17_Sent) = 1
                       /\ C17_To(C17_Sent[1], d)
                       /\ C17_Sent[1].message = AckText )
              /\ (pc[t] = "created" /\ pc'[t] = "failed")
                  => (outbox' = outbox /\ trace'[t] = <<>>)
              /\ (pc[t] \notin C17_InCall /\ pc'[t] \in C17_InCall) => pc[t] = "created"
              /\ (pc[t] \in C17_InCall /\ pc'[t] \in C17_InCall /\ pc'[t] # pc[t])
                  => outbox' = outbox
              /\ (pc[t] \in C17_InCall /\ pc'[t] \in {"done", "chunk_sleep"})
                  => ( /\ Len(C17_Sent) = 1
                       /\ C17_To(C17_Sent[1], d)
                       /\ C17_Sent[1].message # AckText )]_vars

\* A handler is done after the acknowledgement and then the invoker's error
\* were written to the same conversation.
C17_Witness ==
    /\ \E t \in Tasks : pc[t] = "done"
    /\ Len(outbox) = 2
    /\ outbox[1].message = AckText
    /\ outbox[2].message = ErrorPrefix \o ExceptionPrefix \o ErrInvalidSyntax
    /\ outbox[1].action = outbox[2].action /\ outbox[1].id = outbox[2].id

\* C18: a group event with to_me false is never acknowledged, never reaches
\* the invoker and causes no outbound message, whatever its text.
C18_UnaddressedInert ==
    \A t \in Tasks :
        (data[t].post_type = "message" /\ data[t].message_type = "group" /\ ~data[t].to_me)
        => ( /\ pc[t] \in {"created", "ignored"}
             /\ trace[t] = <<>> /\ attempt[t] = 0
             /\ outbox = <<>> )

\* An unaddressed group message whose text is a command has been ignored over
\* an open socket.
C18_Witness ==
    \E t \in Tasks :
        /\ pc[t] = "ignored"
        /\ data[t].message_type = "group" /\ ~data[t].to_me
        /\ IsCommand(ExtractMessageText(data[t].message))
        /\ websocket = "open"
        /\ outbox = <<>>

\* C19: with ignore_temp_session a private event of a sub-type other than
\* "friend" is dropped silently whatever its text; without it the sub-type
\* does not change what the handler decides, and the handler follows that.
C19_TempSessionFilter ==
    \A t \in Tasks :
        (data[t].post_type = "message" /\ data[t].message_type = "private")
        => /\ (ignore_temp_session /\ data[t].sub_type # "friend")
                  => ( /\ pc[t] \in {"created", "ignored"}
                       /\ trace[t] = <<>> /\ attempt[t] = 0
                       /\ outbox = <<>> )
           /\ ~ignore_temp_session
                  => ( /\ Plan(data[t]) = Plan([data[t] EXCEPT !.sub_type = "friend"])
                       /\ pc[t] = "ignored" => Plan(data[t]).kind = "none"
                       /\ pc[t] \in Active => Plan(data[t]).kind = "reply" )

\* A private command without sub-type has been dropped by the filter over an
\* open socket.
C19_Witness ==
    \E t \in Tasks :
        /\ pc[t] = "ignored"
        /\ ignore_temp_session
        /\ data[t].message_type = "private" /\ data[t].sub_type = ""
        /\ IsCommand(ExtractMessageText(data[t].message))
        /\ websocket = "open"
        /\ outbox = <<>>

\* The configured prefixes the text starts with, by position in the list.
C20_Matches(T) ==
    {i \in 1..Len(command_prefixes) : StartsWith(T, command_prefixes[i])}

\* T without the first prefix in list order it starts with, trimmed.
C20_Payload(T) ==
    LET i == CHOOSE j \in C20_Matches(T) : \A k \in C20_Matches(T) : j <= k
    IN  Strip(SubSeq(T, Len(command_prefixes[i]) + 1, Len(T)))

\* C20: for a private friend or addressed group message with text T that
\* starts with a configured prefix, is_command holds and the payload is T
\* without the first matching prefix, trimmed; a private message that starts
\* with none is answered with payload T when auto_reply_private is set and
\* ignored when it is not.
C20_PayloadSelection ==
    \A t \in Tasks :
        LET d == data[t]
            T == ExtractMessageText(d.message)
            routed == \/ d.message_type = "private" /\ d.sub_type = "friend"
                      \/ d.message_type = "group" /\ d.to_me
        IN  (d.post_type = "message" /\ routed /\ pc[t] # "created")
            => IF C20_Matches(T) # {}
               THEN /\ IsCommand(T)
                    /\ StripCommandPrefix(T) = C20_Payload(T)
                    /\ pc[t] \in Active
                    /\ Plan(d).kind = "reply" /\ Plan(d).payload = C20_Payload(T)
               ELSE /\ ~IsCommand(T)
                    /\ d.message_type = "private" =>
                           IF auto_reply_private
                           THEN /\ pc[t] \in Active
                                /\ Plan(d).kind = "reply" /\ Plan(d).payload = T
                           ELSE pc[t] = "ignored" /\ Plan(d).kind = "none"

\* "/claude hi" starts with "/c" and with "/claude": the handler is in the
\* invoker with the payload left by the first of them.
C20_Witness ==
    \E t \in Tasks :
        /\ pc[t] = "call_run"
        /\ ExtractMessageText(data[t].message) =
               <<"/", "c", "l", "a", "u", "d", "e", " ", "h", "i">>
        /\ Plan(data[t]).payload = <<"l", "a", "u", "d", "e", " ", "h", "i">>

\* The messages a step appends to the outbox.
Sent == SubSeq(outbox', Len(outbox) + 1, Len(outbox'))

\* A text of n characters in which neighbouring slices differ.
C21_Text(n) == [i \in 1..n |-> <<"0", "1", "2", "3", "4", "5", "6", "7", "8", "9">>[(i % 10) + 1]]

RECURSIVE C21_Concat(_)
C21_Concat(chunks) ==
    IF chunks = <<>> THEN <<>> ELSE Head(chunks) \o C21_Concat(Tail(chunks))

\* send_long_message slices a message of L characters at limit n as stated.
C21_Sliced(message, n) ==
    LET chunks == SendLongMessage(message, n)
        L == Len(message)
    IN  /\ Len(chunks) = IF L <= n THEN 1 ELSE (L + n - 1) \div n
        /\ \A i \in 1..(Len(chunks) - 1) : Len(chunks[i]) = n
        /\ Len(chunks[Len(chunks)]) <= n
        /\ C21_Concat(chunks) = message

\* The answers the replies of SpecReply are cut from.
C21_Answers ==
    { o.text \o (IF o.cost > 0 THEN CostPrefix \o FormatCost(o.cost) ELSE <<>>) :
          o \in {x \in ReplyOutcomes : x.kind = "ok"} }

\* C21: an answer of L characters with limit M is sent as one message when
\* L <= M and otherwise as ceil(L / M) messages in order, every chunk but the
\* last of exactly M characters, whose concatenation is the answer (4500
\* characters at 2000 give 2000, 2000, 500); the chunks go out one per step,
\* each after the sleep that follows the chunk before it, and nothing else is
\* sent in between.
C21_ChunkedReplies ==
    /\ [](/\ \A n \in 0..MaxTextLen : C21_Sliced(C21_Text(n), max_length)
          /\ [i \in 1..3 |-> Len(SendLongMessage(C21_Text(4500), 2000)[i])]
                 = <<2000, 2000, 500>>
          /\ Len(SendLongMessage(C21_Text(4500), 2000)) = 3
          /\ (pc[1] = "done" /\ Len(outbox) > 2)
                 => /\ C21_Concat([i \in 1..(Len(outbox) - 1) |-> outbox[i + 1].message])
                           \in C21_Answers
                    /\ \A i \in 2..(Len(outbox) - 1) : Len(outbox[i].message) = max_length)
    /\ [][\A t \in Tasks :
            /\ (pc[t] # "chunk_sleep" /\ pc'[t] = "chunk_sleep")
                   => /\ Len(Sent) = 1
                      /\ Len(Sent[1].message) = max_length
                      /\ unsent'[t] # <<>>
            /\ (pc[t] = "chunk_sleep" /\ unsent[t] # <<>> /\ outbox' # outbox)
                   => /\ Sent = <<Msg(Plan(data[t]).action, Plan(data[t]).id,
                                      Head(unsent[t]))>>
                      /\ unsent'[t] = Tail(unsent[t])
                      /\ pc'[t] = "chunk_sleep"
            /\ (unsent[t] # <<>> /\ outbox' # outbox) => pc[t] = "chunk_sleep"]_vars
C21_Witness ==
    /\ pc[1] = "done"
    /\ Len(outbox) = 5
    /\ Len(outbox[4].message) = max_length
    /\ Len(outbox[5].message) = 1

\* Positions of a handler inside call().
InCall == {"call_enter", "call_run", "call_sleep"}

\* C22: a failure returned by the invoker (CLI missing, timeout, non-retryable
\* error, retries exhausted) is answered by exactly one message to the
\* originating conversation, the error prefix followed by the failure's reason;
\* no chunk follows it and on_message returns normally.
C22_FailureBecomesReply ==
    /\ [](\A t \in Tasks :
             (pc[t] = "call_returned" /\ ~result[t].success)
                 => ReplyMessages(result[t]) = <<ErrorPrefix \o result[t].error>>)
    /\ [][\A t \in Tasks :
            (pc[t] \in InCall /\ pc'[t] \notin InCall /\ data[t] # NoEvent)
                => /\ pc'[t] \in {"done", "failed", "chunk_sleep"}
                   /\ Len(Sent) <= 1
                   /\ pc'[t] = "failed" => Sent = <<>>
                   /\ Sent # <<>> =>
                          /\ Sent[1].action = Plan(data[t]).action
                          /\ Sent[1].id = Plan(data[t]).id
                          /\ StartsWith(Sent[1].message, ErrorPrefix)
                                 => pc'[t] = "done" /\ unsent'[t] = <<>>]_vars
C22_Witness ==
    /\ pc[1] = "done"
    /\ Len(outbox) = 2
    /\ outbox[1].message = AckText
    /\ outbox[2] = Msg("send_private_msg", 1, ErrorPrefix \o TimeoutError(300))

\* C23: whenever the handling of an accepted event fails after the
\* acknowledgement, an exception raised inside the handler included, the
\* originating conversation receives an error-prefixed reply.
C23_EveryFailureReported ==
    [][\A t \in Tasks :
          (/\ pc[t] \in InCall /\ data[t] # NoEvent /\ pc'[t] = "failed"
           /\ websocket = "open" /\ connected /\ connected')
              => /\ Len(Sent) = 1
                 /\ Sent[1].id = Plan(data[t]).id
                 /\ StartsWith(Sent[1].message, ErrorPrefix)]_vars

\* C24: a frame that does not decode, and a frame whose handler raised, are
\* skipped: the read loop goes on to the next frame, listen leaves the
\* connected flag and the socket as they are and starts no reconnect, and a
\* frame that is not dispatched creates no handler.
C24_BadFrameSkipped ==
    [][/\ (listen_pc = "recv" /\ Len(inbox') < Len(inbox) /\ ~Head(inbox).decodes)
           => /\ listen_pc' = "recv"
              /\ inbox' = Tail(inbox)
              /\ pc' = pc
              /\ <<connected, websocket, running, conn_pc>>'
                     = <<connected, websocket, running, conn_pc>>
       /\ (listen_pc = "await" /\ listen_pc' # "await")
           => /\ listen_pc' = "recv"
              /\ inbox' = inbox
              /\ <<connected, websocket, running, conn_pc>>'
                     = <<connected, websocket, running, conn_pc>>
       /\ \A t \in Tasks :
              (pc[t] \in InCall /\ pc'[t] = "failed" /\ outbox' = outbox
                   /\ websocket = "open" /\ connected)
                  => /\ listen_pc' = listen_pc
                     /\ <<websocket, running, conn_pc>>' = <<websocket, running, conn_pc>>]_vars
C24_Witness ==
    /\ pc[1] = "failed"
    /\ pc[2] = "created"
    /\ listen_pc = "await"
    /\ awaited = 2
    /\ connected
    /\ websocket = "open"

\* C25: whenever listen's read loop ends, the peer having closed with or
\* without an error code, the session clears connected and, if running is set,
\* reconnects: connect() starts a handshake; with running cleared it ends
\* without a handshake.
C25_ReconnectOnEveryLoss ==
    [][(listen_pc = "recv" /\ listen_pc' \in {"ended", "reconnect"})
          => /\ connected' = FALSE
             /\ running => (listen_pc' = "reconnect" /\ conn_pc' = "handshake")
             /\ ~running => (listen_pc' = "ended" /\ conn_pc' = conn_pc)]_vars

\* connect() after a failed handshake: neither returned nor raised.
C26_Retries ==
    /\ connected' = FALSE
    /\ conn_pc' = "sleep"
    /\ <<app_pc, listen_pc, websocket>>' = <<app_pc, listen_pc, websocket>>

\* connect() after an accepted handshake: returned to its caller.
C26_Returns ==
    /\ connected' = TRUE
    /\ websocket' = "open"
    /\ conn_pc' = "idle"
    /\ conn_caller = "reconnect" => listen_pc' = "recv"
    /\ conn_caller = "start" => app_pc' = "connected"

\* C26: while running is set, a failed handshake never makes connect() return
\* or raise: connected is cleared, connect() sleeps and tries again, without a
\* bound on the attempts; a handshake the peer accepts makes connect() return
\* with connected set, and after a reconnect listening resumes. With a peer
\* that eventually accepts, connect() eventually returns connected.
C26_IndefiniteReconnect ==
    /\ [][/\ (conn_pc = "handshake" /\ conn_pc' # "handshake" /\ running)
              => (C26_Retries \/ C26_Returns)
          /\ (conn_pc = "sleep" /\ conn_pc' # "sleep" /\ running)
              => /\ conn_pc' = "handshake"
                 /\ <<app_pc, listen_pc, connected>>' = <<app_pc, listen_pc, connected>>]_vars
    /\ (conn_pc # "idle" /\ running) ~> (conn_pc = "idle" /\ connected /\ websocket = "open")
C26_Witness ==
    /\ running
    /\ conn_pc = "sleep"
    /\ conn_caller = "reconnect"
    /\ listen_pc = "reconnect"
    /\ ~connected
    /\ Closed(websocket)

\* C27: a send on an absent or closed socket fails and writes nothing, and
\* after any failing send, by the pre-check as well as by a write error, the
\* connected flag is false.
C27_SendFailureSemantics ==
    [][\A t \in Tasks :
          /\ (pc[t] # "idle" /\ pc'[t] # pc[t] /\ websocket # "open") => outbox' = outbox
          /\ (pc[t] # "failed" /\ pc'[t] = "failed")
                 => (outbox' = outbox /\ connected' = FALSE)]_vars

\* The session as disconnect() leaves it.
C28_Disconnected ==
    /\ ~running
    /\ ~connected
    /\ heartbeat_task = "none"
    /\ websocket \in {"none", "closed_ok", "closed_error"}

C29_StopWinsEveryRace ==
    /\ [](stop_pc = "done"
             => /\ ~running
                /\ ~connected
                /\ websocket # "open"
                /\ conn_pc = "idle")
    /\ [][stop_pc = "done"
             => /\ conn_pc' = conn_pc
                /\ listen_pc' = listen_pc
                /\ heartbeat_tasks' = heartbeat_tasks]_vars

\* The callback calls a step appends.
C30_Calls == SubSeq(invoked', Len(invoked) + 1, Len(invoked'))

\* C30: every status transition calls every registered observer once, in
\* registration order, with a snapshot of online flag, failure count and time
\* of the status just entered, the last one being the supervisor's new status;
\* an observer that raises does not keep the later observers from being
\* called, and the supervisor loop goes on to its next sleep.
C30_ObserverNotification ==
    [][LET k == Len(status_callbacks)
       IN  /\ online_status' # online_status => Appended # <<>>
           /\ Len(C30_Calls) = k * Len(Appended)
           /\ \A n \in 1..Len(Appended) : \A i \in 1..k :
                  LET c == C30_Calls[(n - 1) * k + i]
                  IN  /\ c.observer = i
                      /\ c.status.online = Appended[n].online
                      /\ c.status.connection_failures = Appended[n].connection_failures
                      /\ c.status.timestamp = cycles
           /\ Appended # <<>> =>
                  /\ Last(Appended).online = online_status'
                  /\ Last(Appended).connection_failures = connection_failures'
                  /\ sup_pc' = "sleep"
                  /\ cycles' = cycles + 1]_vars
C30_Witness ==
    /\ Len(notifications) = 1
    /\ Len(invoked) = 3
    /\ invoked[1].raised
    /\ invoked[3].observer = 3
    /\ ~invoked[3].status.online
    /\ sup_pc = "sleep"
    /\ cycles < MaxCycles

\* C31: cancelling the supervisor task, in its sleep or in the ping it awaits,
\* ends it within stop_heartbeat() with no probe, status transition or
\* notification, and none follows; stop_heartbeat() on a task that has ended,
\* or with no task started, changes nothing.
C31_SupervisorCancellation ==
    [][/\ (sup_pc \in {"sleep", "ping"} /\ sup_pc' \notin {"sleep", "ping"})
           => /\ sup_pc' = "cancelled"
              /\ UNCHANGED <<online_status, connection_failures, notifications,
                             invoked, cycles, last_probe>>
       /\ sup_pc \in {"off", "cancelled"}
           => UNCHANGED <<online_status, connection_failures, notifications,
                          invoked, cycles, last_probe>>
       /\ (sup_pc \in {"off", "cancelled"} /\ app_pc' = app_pc)
           => sup_pc' = sup_pc
       /\ (stop_pc = "idle" /\ stop_pc' # "idle") => sup_pc' \notin {"sleep", "ping"}]_vars
C31_Witness ==
    /\ sup_pc = "cancelled"
    /\ last_probe = "none"
    /\ cycles = 0
    /\ IsConnected

C33_Fields(d) == <<d.message_type, d.user_id, d.group_id>>
C33_SameKeyIffSameFields ==
    \A d, e \in KeyEvents : (MessageId(d) = MessageId(e)) <=> (C33_Fields(d) = C33_Fields(e))
C33_KeyCollisionFree ==
    /\ []C33_SameKeyIffSameFields
    /\ [][\A t \in Tasks :
              (pc[t] = "created" /\ pc'[t] \notin {"created", "unstarted"})
                  => ( (pc'[t] = "dropped")
                         <=> \E u \in Tasks \ {t} :
                                /\ pc[u] \in Active
                                /\ C33_Fields(data[u]) = C33_Fields(data[t]) )]_vars
\* Two senders whose numbers and groups concatenate to the same digits are
\* both in progress, and a second message of a conversation was dropped.
C33_Witness ==
    \E t, u \in Tasks :
        /\ pc[t] \in Active /\ pc[u] \in Active
        /\ data[t].message_type = "group" /\ data[u].message_type = "group"
        /\ data[t].user_id = 1 /\ data[t].group_id = 11
        /\ data[u].user_id = 11 /\ data[u].group_id = 1
        /\ Cardinality(processing_messages) = 2

\* C34: a supervisor cycle that finds the session not connected sends no
\* ping and leaves the failure counter unchanged; if the supervisor was Online
\* it becomes Offline and every observer is notified once, with the Offline
\* snapshot; if it was Offline nothing changes and nobody is notified. A ping
\* is sent only in a cycle that found the session connected.
C34_DisconnectedForcesOffline ==
    [][/\ (sup_pc = "sleep" /\ ~IsConnected /\ cycles' # cycles)
              => /\ sup_pc' = "sleep"
                 /\ last_probe' = "disconnected"
                 /\ connection_failures' = connection_failures
                 /\ online_status' = FALSE
                 /\ IF online_status
                    THEN /\ notifications' =
                                Append(notifications,
                                       [online |-> FALSE,
                                        connection_failures |-> connection_failures])
                         /\ Len(invoked') = Len(invoked) + Len(status_callbacks)
                         /\ \A i \in (Len(invoked) + 1)..Len(invoked') :
                                ~invoked'[i].status.online
                    ELSE UNCHANGED <<notifications, invoked>>
       /\ (sup_pc = "sleep" /\ sup_pc' = "ping") => IsConnected]_vars
\* The supervisor, Online after one failed probe, found the session
\* disconnected: it is Offline and the counter still holds that failure.
C34_Witness ==
    /\ last_probe = "disconnected" /\ ~online_status /\ connection_failures = 1
    /\ Len(notifications) = 1

\* C35: a session heartbeat task that ends while the session is running ended
\* on a failed ping: it leaves connected = false and does nothing else, the
\* socket, the running flag, the listen loop and connect() being as before;
\* and a session that is not connected becomes connected only by a handshake
\* of connect() that succeeds.
C35_HeartbeatFailureLocal ==
    [][/\ heartbeat_tasks' < heartbeat_tasks
              => /\ heartbeat_tasks' = heartbeat_tasks - 1
                 /\ running => ~connected'
                 /\ UNCHANGED <<websocket, running, listen_pc, conn_pc, conn_caller,
                                app_pc, awaited, inbox>>
       /\ (~IsConnected /\ IsConnected')
              => (conn_pc = "handshake" /\ conn_pc' = "idle" /\ websocket' = "open")]_vars
\* The only heartbeat task failed on the open socket of a running session:
\* the listen loop still receives, and the supervisor has found the session
\* disconnected.
C35_Witness ==
    /\ running /\ ~connected /\ websocket = "open"
    /\ heartbeat_tasks = 0 /\ heartbeat_task = "ended"
    /\ listen_pc = "recv" /\ conn_pc = "idle"
    /\ last_probe = "disconnected"

\* C36: at most one heartbeat task of the session is alive in every reachable
\* state, also after connection losses and reconnects that re-enter listen().
C36_SingleSessionHeartbeat == heartbeat_tasks <= 1

\* C37: the failure counter is between 0 and the threshold T in every state
\* an observer sees and below T at the end of every probe cycle; it changes
\* only inside a probe cycle, by +1 on a failed probe, or to 0 on a successful
\* probe or on a transition to Online.
C37_ToOnline ==
    /\ online_status'
    /\ Len(notifications') > Len(notifications)
    /\ notifications'[Len(notifications')].online
C37_FailureCounterBounds ==
    /\ [](/\ connection_failures >= 0
          /\ connection_failures < max_connection_failures
          /\ \A i \in 1..Len(notifications) :
                 /\ notifications[i].connection_failures >= 0
                 /\ notifications[i].connection_failures <= max_connection_failures)
    /\ [][connection_failures' # connection_failures
              => /\ sup_pc = "ping" /\ sup_pc' = "sleep" /\ cycles' = cycles + 1
                 /\ \/ connection_failures' = connection_failures + 1
                          /\ last_probe' = "fail"
                    \/ connection_failures' = 0
                          /\ (last_probe' = "ok" \/ C37_ToOnline)]_vars
\* A failed probe took the counter to the threshold, which the observers saw,
\* and the cycle ended with the counter reset.
C37_Witness ==
    /\ last_probe = "fail" /\ connection_failures = 0
    /\ max_connection_failures >= 2
    /\ \E i \in 1..Len(notifications) :
           notifications[i].connection_failures = max_connection_failures

\* C38: observers are notified only when the status changes: the 'online'
\* values of the snapshots made, and of those delivered to each observer,
\* alternate strictly, starting with false, and every snapshot with online =
\* true has failure count 0.
C38_Delivered(o) ==
    LET ToObserver(c) == c.observer = o
    IN  SelectSeq(invoked, ToObserver)
C38_NotificationsAlternate ==
    /\ \A i \in 1..Len(notifications) :
           /\ notifications[i].online = (i % 2 = 0)
           /\ notifications[i].online => notifications[i].connection_failures = 0
    /\ \A o \in 1..Len(status_callbacks) :
           /\ Len(C38_Delivered(o)) = Len(notifications)
           /\ \A i \in 1..Len(C38_Delivered(o)) :
                  /\ C38_Delivered(o)[i].status.online = (i % 2 = 0)
                  /\ C38_Delivered(o)[i].status.online
                         => C38_Delivered(o)[i].status.connection_failures = 0
\* Each observer has been told Offline, Online and Offline again, the first
\* time with a failure count above 0.
C38_Witness ==
    /\ Len(notifications) >= 3
    /\ notifications[1].connection_failures > 0
    /\ Len(C38_Delivered(2)) >= 3
    /\ ~online_status

\* C39: with max_retries >= 1, every value call() returns has a success field
\* and a retries field with 0 <= retries <= max_retries - 1; retries is the
\* number of backoff sleeps the call made, which is the number of process
\* invocations minus one if any ran; and a call that ran no process (the CLI
\* was not found) returns a failure with retries 0 and has not slept.
C39_Count(t, what) ==
    Cardinality({i \in 1..Len(trace[t]) : trace[t][i][1] = what})
C39_ResultAccounting ==
    \A t \in Tasks :
        (pc[t] = "call_returned" /\ max_retries >= 1)
            => /\ result[t].set
               /\ result[t].success \in BOOLEAN
               /\ result[t].retries >= 0
               /\ result[t].retries <= max_retries - 1
               /\ result[t].retries = C39_Count(t, "sleep")
               /\ C39_Count(t, "run") >= 1
                      => result[t].retries = C39_Count(t, "run") - 1
               /\ C39_Count(t, "run") = 0
                      => /\ ~result[t].success
                         /\ result[t].error = CliNotFoundError
                         /\ result[t].retries = 0
                         /\ trace[t] = <<>>
\* A call returned a failure after every attempt but the last was retried.
C39_Witness ==
    /\ max_retries = MaxRetriesBound
    /\ pc[1] = "call_returned" /\ ~result[1].success
    /\ result[1].retries = max_retries - 1
    /\ C39_Count(1, "sleep") = max_retries - 1
    /\ C39_Count(1, "run") = max_retries

\* C40: for an accepted message (a private one that is not an ignored
\* temporary session, a group one that mentions the bot) whose text starts
\* with a command prefix and has nothing but whitespace after it, the handler
\* sends one message, the usage text behind the error marker, to the sender
\* of a private message or to the group of a group message, and ends: no
\* acknowledgement is sent and call() is not entered.
C40_EmptyCommand(d) ==
    LET message == ExtractMessageText(d.message)
    IN  /\ d.post_type = "message"
        /\ \/ d.message_type = "private" /\ ~(ignore_temp_session /\ d.sub_type # "friend")
           \/ d.message_type = "group" /\ d.to_me
        /\ IsCommand(message)
        /\ Strip(StripCommandPrefix(message)) = <<>>
C40_Usage(d) ==
    Msg(IF d.message_type = "private" THEN "send_private_msg" ELSE "send_group_msg",
        IF d.message_type = "private" THEN d.user_id ELSE d.group_id,
        ErrorPrefix \o UsageText)
C40_EmptyCommandUsage ==
    [][/\ (pc[1] = "created" /\ pc'[1] # "created" /\ C40_EmptyCommand(data[1]))
              => /\ pc'[1] \in {"done", "failed"}
                 /\ pc'[1] = "done" => outbox' = Append(outbox, C40_Usage(data[1]))
                 /\ pc'[1] = "failed" => outbox' = outbox
                 /\ trace'[1] = <<>>
       /\ pc[1] \in {"done", "failed"} => (pc'[1] = pc[1] /\ outbox' = outbox)]_vars
\* The usage message of an empty command was sent to the group it came from.
C40_Witness ==
    /\ pc[1] = "done"
    /\ outbox = <<Msg("send_group_msg", 7, ErrorPrefix \o UsageText)>>
    /\ trace[1] = <<>> /\ outcomes[1] = <<>>

====
